---- MODULE Spec2Model ----
(***************************************************************************)
(* Model of the share_drive crate (shared_drive/src): the token-caching    *)
(* Authenticator (auth.rs) and the SharedDriveClient operations            *)
(* (client.rs).                                                            *)
(*                                                                         *)
(* Option<T> values are sequences: None is <<>>, Some(x) is <<x>>.         *)
(* Time is in seconds.  An access token string is modelled by the serial   *)
(* number of the exchange that produced it.                                *)
(***************************************************************************)
EXTENDS Integers, Sequences, FiniteSets, TLC

\* ------------------------------------------------------------------ bounds
NumCallers == 2        \* tasks sharing one Authenticator
MaxCalls == 3          \* get_access_token calls made in all
MaxTime == 1           \* the clock runs from 0 to MaxTime
MaxOps == 2            \* client operations started one after the other
MaxPages == 3          \* list requests sent by one query_files call
MaxPuts == 13          \* chunk PUTs sent by one upload_resumable call
MaxTransfers == 1      \* delete_file, upload and download calls made one
                       \* after the other
MaxBuffers == 2        \* body buffers one download receives
NumPaths == 3          \* local files the upload command's patterns can match
MaxMatches == 3        \* matches the patterns yield in all
MaxBytes == 4          \* byte counts of a TransferProgress
MaxTail == 2           \* characters after the prefix of an extract_id input
MaxPieces == 3         \* pieces of a pattern given to expand_braces

\* ------------------------------------------------------- program constants
BUFFER == 60           \* Duration::from_secs(60)
RESUMABLE_THRESHOLD == 50 * 1024 * 1024     \* bytes
CHUNK_SIZE == 8 * 1024 * 1024               \* bytes

Callers == 1..NumCallers

\* expires_in values the token endpoint may answer with
ExpiresIn == {0, 61}
\* non-2xx statuses and bodies the token endpoint may answer with
ErrStatus == {401}
Bodies == {"unauthorized"}

\* ------------------------------------------------------------- Option<T>
None == <<>>
Some(x) == <<x>>
IsSome(o) == o # <<>>
Unwrap(o) == o[1]

VARIABLES
  \* Authenticator
  keyValid,       \* whether credentials.private_key parses as an RSA PEM key
  cached_token,   \* Option<CachedToken>
  readers,        \* tasks holding a read guard of cached_token
  writer,         \* the task holding the write guard, 0 when none
  \* the tasks inside get_access_token
  pc,             \* position of each task
  new_token,      \* the local new_token of each task (Option<CachedToken>)
  result,         \* what the task's call returned
  \* environment
  now,            \* SystemTime::now()
  serial,         \* number of tokens the token endpoint has issued
  issued,         \* the endpoint's record {access_token, expires_at, caller}
                  \* of each issued token that the cache or a task still holds
  \* observations of each call (history)
  calls,          \* get_access_token calls made by each task
  started,        \* get_access_token calls made in all
  seen,           \* what the call saw under its read guard
  callPosts,      \* POSTs to TOKEN_URI made by the call
  callExch,       \* serial number of the token the call's exchange returned
  wrote,          \* whether the call has stored into cached_token
  resp,           \* status and body of the token endpoint's answer
  prev,           \* what the task's previous call cached
  lastWrite       \* the task that stored last, and the token it stored

authVars == <<keyValid, cached_token, readers, writer, pc, new_token, result,
              now, serial, issued, calls, started, seen, callPosts, callExch,
              wrote, resp, prev, lastWrite>>

VARIABLES
  \* one SharedDriveClient operation at a time, run by task ClientTask
  qpc,            \* position of the operation
  op,             \* the operation and its arguments
  ops,            \* operations started so far
  token,          \* the local `token` of the operation
  all_files,      \* the local `all_files` of query_files
  page_token,     \* the local `page_token` of query_files
  requests,       \* the list requests the provider received from this call
  responses,      \* the provider's answers to them
  qresult         \* what the operation returned

clientVars == <<qpc, op, ops, token, all_files, page_token, requests,
                responses, qresult>>

VARIABLES
  \* delete_file
  dpc,            \* position of the delete_file call
  file_id,        \* its argument
  dsent,          \* DELETE requests the provider received from this call
  dstatus,        \* status of the provider's answer, 0 when none
  dresult,        \* what delete_file returned
  \* upload_file_with_progress, upload_multipart and upload_resumable
  upc,            \* position of the upload call
  filename,       \* local_path.file_name()
  progress,       \* whether a progress callback was given
  lookup,         \* outcome of the find_file call: none, pending, found,
                  \* absent or failed
  existing,       \* the file find_file returned (Option<id>)
  matched,        \* the remote files the name lookup listed, kept while
                  \* the delete_file call runs
  file_size,      \* the local file_size
  nMultipart,     \* multipart POSTs the provider received from this call
  nInit,          \* resumable-init POSTs the provider received
  initResp,       \* the provider's answer to the init POST
  upload_url,     \* the local upload_url (Option<String>)
  opened,         \* File::open calls made
  fileLen,        \* bytes the local file held when it was opened
  avail,          \* bytes of the local file not read yet
  bytes_uploaded, \* the local bytes_uploaded
  put,            \* the chunk PUT the provider received last
  prevPut,        \* the chunk PUT before it
  nPut,           \* chunk PUTs the provider received from this call
  nFull,          \* how many of them carried CHUNK_SIZE bytes
  putStatus,      \* status of the provider's answer to `put`, 0 when none
  putBody,        \* the body of that answer
  eof,            \* whether a read has returned 0
  n308,           \* chunk PUTs answered 308
  acked,          \* bytes of the chunk PUTs answered 308
  nNotes,         \* progress notifications emitted by this call
  note,           \* the last notification emitted
  uresult         \* what the upload call returned

delVars == <<dpc, file_id, dsent, dstatus, dresult>>
callVars == <<filename, progress, lookup, existing, matched, file_size>>
chunkVars == <<nInit, initResp, upload_url, opened, fileLen, avail, bytes_uploaded,
               put, prevPut, nPut, nFull, putStatus, putBody, eof, n308,
               acked, nNotes, note>>
uploadVars == <<upc, callVars, nMultipart, chunkVars, uresult>>
VARIABLES
  \* download_file_with_progress and the get_file call it makes
  gpc,              \* position of the download call
  dl_progress,      \* whether a progress callback was given
  destination,      \* its argument `destination`
  dl_token,         \* its local `token`
  nMeta,            \* metadata GETs the provider received from this call
  metadata,         \* the local `metadata` (Option<FileMetadata>)
  total_bytes,      \* the local total_bytes
  is_dir,           \* what destination.is_dir() answered
  final_path,       \* the local final_path (Option<PathBuf>)
  nMedia,           \* media GETs the provider received from this call
  mediaResp,        \* status and body of the provider's answer to it
  created,          \* the paths File::create has created or truncated
  nBuffers,         \* body buffers the stream has yielded
  nWritten,         \* how many of them write_all has written
  written,          \* bytes write_all has written to the file
  bytes_downloaded, \* the local bytes_downloaded
  dl_notes,         \* progress notifications emitted by this call
  dl_note,          \* the last notification emitted
  dl_result         \* what the download call returned

dlVars == <<gpc, dl_progress, destination, dl_token, nMeta, metadata,
            total_bytes, is_dir, final_path, nMedia, mediaResp, created,
            nBuffers, nWritten, written, bytes_downloaded, dl_notes, dl_note,
            dl_result>>

VARIABLES
  \* the upload command of main
  cpc,              \* position of the command
  matches,          \* the files the patterns matched, in the order found
  files_to_upload,  \* the local files_to_upload
  idx,              \* files the upload loop has gone through
  attempts,         \* the upload_file calls made: the file and the outcome
  cresult           \* what the command returned

batchVars == <<cpc, matches, files_to_upload, idx, attempts, cresult>>

VARIABLES
  \* a call of one of the crate's pure functions
  fn,               \* the function called, "none" before the call
  input,            \* its argument
  output            \* what it returned

fnVars == <<fn, input, output>>

\* what the upload and delete steps leave alone
otherVars == <<batchVars, fnVars>>
moreVars == <<dlVars, otherVars>>
xferVars == <<delVars, uploadVars, moreVars>>

\* what the authenticator's steps leave alone
restVars == <<clientVars, xferVars>>

vars == <<authVars, clientVars, xferVars>>

\* ------------------------------------------------------------ CachedToken
CachedToken(tok, exp) == [access_token |-> tok, expires_at |-> exp]

\* Result<String>: Ok(token) or Err(DriveError)
NoResult == [kind |-> "none", token |-> 0, msg |-> <<>>]
Ok(tok) == [kind |-> "Ok", token |-> tok, msg |-> <<>>]
Err(kind, msg) == [kind |-> kind, token |-> 0, msg |-> msg]

\* format!("Status {}: {}", status, body)
StatusMsg(status, body) == <<status, body>>

\* faulty variants: the cached token is never reused; >= for >
IsFreshNever(ct, t) == FALSE
IsFreshInclusive(ct, t) == ct.expires_at >= t + BUFFER
\* token.expires_at > SystemTime::now() + buffer
IsFresh(ct, t) == ct.expires_at > t + BUFFER

\* faulty variant: the read guard lives on into refresh_token
ReadersKeepGuard(c) == readers
\* the read guard is dropped at the end of the block, before refresh_token
ReadersAfterCheck(c) == readers \ {c}

\* faulty variant: only access_token of an existing entry is overwritten
StoreTorn(old, new) ==
  IF IsSome(old)
    THEN Some(CachedToken(new.access_token, Unwrap(old).expires_at))
    ELSE Some(new)
\* *cached = Some(new_token.clone())
StoreValue(old, new) == Some(new)

\* faulty variant: a token another task cached meanwhile is returned
AccessTokenOfCache(old, new) ==
  IF IsSome(old) THEN Unwrap(old).access_token ELSE new.access_token
\* Ok(new_token.access_token)
AccessToken(old, new) == new.access_token

\* faulty variant: a failed refresh clears the cache
CacheCleared(old) == None
\* what a failed refresh leaves in the cache: the `?` returns before the write
CacheAfterFailure(old) == old

\* faulty variant: a suspension point inside the write guard's block
AwaitPointsInGuard == {"read_wait", "exchange", "write_wait", "write_locked"}
\* the .await points of get_access_token, where the future can be dropped
AwaitPoints == {"read_wait", "exchange", "write_wait"}

\* what a call saw under its read guard: whether a token was cached, which
\* one, and whether its expires_at was more than 60 s after that moment
EmptySeen == [set |-> FALSE, some |-> FALSE, token |-> 0, valid |-> FALSE]
Observe(cache, t) ==
  [set |-> TRUE, some |-> IsSome(cache),
   token |-> IF IsSome(cache) THEN Unwrap(cache).access_token ELSE 0,
   valid |-> IsSome(cache) /\ Unwrap(cache).expires_at > t + 60]
EmptyResp == [status |-> 0, body |-> ""]
\* what the task's previous call cached, when it cached a token
EmptyPrev == [wrote |-> FALSE, token |-> 0, posts |-> 0]

\* the endpoint's records without the one of a token that was dropped
Forget(records, dropped) ==
  IF IsSome(dropped)
    THEN {r \in records : r.access_token # Unwrap(dropped).access_token}
    ELSE records

InitAuth ==
  /\ keyValid \in BOOLEAN
  /\ cached_token = None
  /\ readers = {}
  /\ writer = 0
  /\ pc = [c \in Callers |-> "idle"]
  /\ new_token = [c \in Callers |-> None]
  /\ result = [c \in Callers |-> NoResult]
  /\ now = 0
  /\ serial = 0
  /\ issued = {}
  /\ calls = [c \in Callers |-> 0]
  /\ started = 0
  /\ seen = [c \in Callers |-> EmptySeen]
  /\ callPosts = [c \in Callers |-> 0]
  /\ callExch = [c \in Callers |-> 0]
  /\ wrote = [c \in Callers |-> FALSE]
  /\ resp = [c \in Callers |-> EmptyResp]
  /\ prev = [c \in Callers |-> EmptyPrev]
  /\ lastWrite = [caller |-> 0, exch |-> 0]

\* a task enters get_access_token: self.cached_token.read() gives the guard at
\* once when no write guard is held, and suspends the task otherwise
EnterBody(c) ==
  /\ pc[c] \in {"idle", "done", "cancelled"}
  /\ IF writer = 0
       THEN /\ readers' = readers \cup {c}
            /\ pc' = [pc EXCEPT ![c] = "read_locked"]
       ELSE /\ pc' = [pc EXCEPT ![c] = "read_wait"]
            /\ UNCHANGED readers
  /\ calls' = [calls EXCEPT ![c] = @ + 1]
  /\ started' = started + 1
  /\ prev' = [prev EXCEPT ![c] = IF wrote[c] /\ pc[c] = "done"
                                    THEN [wrote |-> TRUE,
                                          token |-> result[c].token,
                                          posts |-> callPosts[c]]
                                    ELSE EmptyPrev]
  /\ new_token' = [new_token EXCEPT ![c] = None]
  /\ result' = [result EXCEPT ![c] = NoResult]
  /\ seen' = [seen EXCEPT ![c] = EmptySeen]
  /\ callPosts' = [callPosts EXCEPT ![c] = 0]
  /\ callExch' = [callExch EXCEPT ![c] = 0]
  /\ wrote' = [wrote EXCEPT ![c] = FALSE]
  /\ resp' = [resp EXCEPT ![c] = EmptyResp]
  /\ UNCHANGED <<keyValid, cached_token, writer, now, issued, serial,
                 lastWrite>>

Enter(c) ==
  /\ started < MaxCalls
  /\ EnterBody(c)

\* a suspended self.cached_token.read().await completes; the order in which
\* tokio serves waiting tasks is left open
ReadLock(c) ==
  /\ pc[c] = "read_wait"
  /\ writer = 0
  /\ readers' = readers \cup {c}
  /\ pc' = [pc EXCEPT ![c] = "read_locked"]
  /\ UNCHANGED <<keyValid, cached_token, writer, new_token, result, now,
                 issued, serial, calls, started, seen, callPosts, callExch, wrote, resp,
                 prev, lastWrite>>

\* the check under the read guard: return the cached token, or drop the guard
\* and enter refresh_token, which signs the assertion and POSTs it to TOKEN_URI
CheckCache(c) ==
  /\ pc[c] = "read_locked"
  /\ seen' = [seen EXCEPT ![c] = Observe(cached_token, now)]
  /\ readers' = ReadersAfterCheck(c)
  /\ IF IsSome(cached_token) /\ IsFresh(Unwrap(cached_token), now)
       THEN /\ result' = [result EXCEPT
                            ![c] = Ok(Unwrap(cached_token).access_token)]
            /\ pc' = [pc EXCEPT ![c] = "done"]
            /\ UNCHANGED <<cached_token, callPosts>>
       ELSE IF keyValid
         THEN /\ callPosts' = [callPosts EXCEPT ![c] = @ + 1]
              /\ pc' = [pc EXCEPT ![c] = "exchange"]
              /\ UNCHANGED <<result, cached_token>>
         ELSE /\ result' = [result EXCEPT ![c] = Err("JwtError", <<>>)]
              /\ pc' = [pc EXCEPT ![c] = "done"]
              /\ cached_token' = CacheAfterFailure(cached_token)
              /\ UNCHANGED callPosts
  /\ UNCHANGED <<keyValid, writer, new_token, now, serial, issued, calls, started,
                 callExch, wrote, resp, prev, lastWrite>>

\* the POST fails in transport, or the 2xx body is no TokenResponse
RefreshTokenHttpError(c) ==
  /\ pc[c] = "exchange"
  /\ result' = [result EXCEPT ![c] = Err("HttpError", <<>>)]
  /\ pc' = [pc EXCEPT ![c] = "done"]
  /\ cached_token' = CacheAfterFailure(cached_token)
  /\ UNCHANGED <<keyValid, readers, writer, new_token, now, issued, serial,
                 calls, started, seen, callPosts, callExch, wrote, resp, prev,
                 lastWrite>>

\* the token endpoint answers non-2xx
RefreshTokenRejected(c) ==
  /\ pc[c] = "exchange"
  /\ \E status \in ErrStatus, body \in Bodies :
       /\ resp' = [resp EXCEPT ![c] = [status |-> status, body |-> body]]
       /\ result' = [result EXCEPT
                       ![c] = Err("TokenRefreshError", StatusMsg(status, body))]
  /\ pc' = [pc EXCEPT ![c] = "done"]
  /\ cached_token' = CacheAfterFailure(cached_token)
  /\ UNCHANGED <<keyValid, readers, writer, new_token, now, issued, serial,
                 calls, started, seen, callPosts, callExch, wrote, prev, lastWrite>>

\* the token endpoint answers 2xx with {access_token, expires_in}; then
\* self.cached_token.write() gives the guard at once when no guard is held
RefreshTokenOk(c) ==
  /\ pc[c] = "exchange"
  /\ \E expires_in \in ExpiresIn :
       LET tok == serial + 1
           t == CachedToken(tok, now + expires_in)
       IN /\ serial' = tok
          /\ issued' = issued \cup {[access_token |-> tok,
                                      expires_at |-> now + expires_in,
                                      caller |-> c]}
          /\ new_token' = [new_token EXCEPT ![c] = Some(t)]
          /\ callExch' = [callExch EXCEPT ![c] = tok]
          /\ resp' = [resp EXCEPT ![c] = [status |-> 200, body |-> ""]]
  /\ IF writer = 0 /\ readers = {}
       THEN /\ writer' = c
            /\ pc' = [pc EXCEPT ![c] = "write_locked"]
       ELSE /\ pc' = [pc EXCEPT ![c] = "write_wait"]
            /\ UNCHANGED writer
  /\ UNCHANGED <<keyValid, cached_token, readers, result, now,
                 calls, started, seen, callPosts, wrote, prev, lastWrite>>

\* a suspended self.cached_token.write().await completes: no guard is held
WriteLock(c) ==
  /\ pc[c] = "write_wait"
  /\ writer = 0
  /\ readers = {}
  /\ writer' = c
  /\ pc' = [pc EXCEPT ![c] = "write_locked"]
  /\ UNCHANGED <<keyValid, cached_token, readers, new_token, result, now,
                 issued, serial, calls, started, seen, callPosts, callExch, wrote, resp,
                 prev, lastWrite>>

\* *cached = Some(new_token.clone()); the guard is dropped; Ok(access_token)
StoreToken(c) ==
  /\ pc[c] = "write_locked"
  /\ cached_token' = StoreValue(cached_token, Unwrap(new_token[c]))
  /\ writer' = 0
  /\ wrote' = [wrote EXCEPT ![c] = TRUE]
  /\ lastWrite' = [caller |-> c, exch |-> callExch[c]]
  /\ result' = [result EXCEPT
                  ![c] = Ok(AccessToken(cached_token, Unwrap(new_token[c])))]
  /\ pc' = [pc EXCEPT ![c] = "done"]
  /\ issued' = Forget(issued, cached_token)
  /\ UNCHANGED <<keyValid, readers, new_token, now, serial, calls, started,
                 seen, callPosts, callExch, resp, prev>>

\* the caller drops the get_access_token future at one of its .await points:
\* the locals of the call are dropped with it
Abandon(c) ==
  /\ pc[c] \in AwaitPoints
  /\ pc' = [pc EXCEPT ![c] = "cancelled"]
  /\ new_token' = [new_token EXCEPT ![c] = None]
  /\ seen' = [seen EXCEPT ![c] = EmptySeen]
  /\ callPosts' = [callPosts EXCEPT ![c] = 0]
  /\ callExch' = [callExch EXCEPT ![c] = 0]
  /\ resp' = [resp EXCEPT ![c] = EmptyResp]
  /\ issued' = Forget(issued, new_token[c])
  /\ UNCHANGED <<keyValid, cached_token, readers, writer, result, now,
                 serial, calls, started, wrote, prev, lastWrite>>

\* the clock advances
Tick ==
  /\ now < MaxTime
  /\ now' = now + 1
  /\ UNCHANGED <<keyValid, cached_token, readers, writer, pc, new_token,
                 result, issued, serial, calls, started, seen, callPosts, callExch,
                 wrote, resp, prev, lastWrite>>

\* ------------------------------------------------------- SharedDriveClient

\* the task that runs the client's operations
ClientTask == 1

\* file ids, the `files` arrays and the cursors a list response may carry
Payloads == {<<>>, <<"f1">>, <<"f2", "f1">>}
Cursors == {"t1", "t2"}
\* non-2xx statuses and error bodies of the provider: a body of the
\* ApiErrorResponse shape {error: {code, message}}, or any other text
ApiErrStatus == {403, 500}
ErrBodies == {[structured |-> TRUE, code |-> 403, message |-> "forbidden"],
              [structured |-> FALSE, code |-> 0, message |-> "raw text"]}

\* file names and folder ids given to find_file; a name is a string of chars
Names == {<<"a">>, <<"'", "a">>}
Parents == {"p1"}
\* predicates given to query_files directly
Queries == {<<"q">>}

\* name.replace('\'', "\\'")
RECURSIVE Escape(_)
Escape(name) ==
  IF name = <<>> THEN <<>>
  ELSE IF Head(name) = "'"
    THEN <<"\\", "'">> \o Escape(Tail(name))
    ELSE <<Head(name)>> \o Escape(Tail(name))

\* format!("name = '{}' and '{}' in parents and trashed = false", ..)
FindQuery(name, parent_id) ==
  <<"name = '">> \o Escape(name) \o <<"' and '", parent_id,
    "' in parents and trashed = false">>

\* Result of a client operation: Ok(files), Ok(found) or Err(DriveError)
NoQResult ==
  [kind |-> "none", files |-> <<>>, found |-> None, status |-> 0,
   message |-> ""]
QOk(files, found) ==
  [kind |-> "Ok", files |-> files, found |-> found, status |-> 0,
   message |-> ""]
QErr(kind, status, message) ==
  [kind |-> kind, files |-> <<>>, found |-> None, status |-> status,
   message |-> message]

\* faulty variant: a non-2xx response ends the loop with the files so far
ReturnPartial(status, body, files) == QOk(files, None)
\* the non-2xx branch of query_files: the structured body's code and message
\* when the body parses as ApiErrorResponse, else the status and the raw body
ApiErrorOf(status, body, files) ==
  IF body.structured
    THEN QErr("ApiError", body.code, body.message)
    ELSE QErr("ApiError", status, body.message)

\* faulty variant: each page replaces the files gathered so far
ExtendReplace(acc, files) == files
\* all_files.extend(list_response.files)
Extend(acc, files) == acc \o files

\* faulty variant: the first cursor is kept for every later request
PageTokenSticky(old, next) == IF IsSome(old) THEN old ELSE next
\* Some(token) => page_token = Some(token)
NextPageToken(old, next) == next

\* faulty variant: the first match is returned
FirstOf(files) == IF files = <<>> THEN None ELSE Some(files[1])
\* files.into_iter().last()
LastOf(files) == IF files = <<>> THEN None ELSE Some(files[Len(files)])

\* what the operation returns for the accumulated files
Returned(o, files) ==
  IF o.kind = "find" THEN QOk(<<>>, LastOf(files)) ELSE QOk(files, None)

InitClient ==
  /\ qpc = "idle"
  /\ op = [kind |-> "none", q |-> <<>>]
  /\ ops = 0
  /\ token = 0
  /\ all_files = <<>>
  /\ page_token = None
  /\ requests = <<>>
  /\ responses = <<>>
  /\ qresult = NoQResult

\* faulty variant: only the first page request carries the token
BearerFirstPage(tok, page) == IF IsSome(page) THEN 0 ELSE tok
\* .bearer_auth(&token) of a page request
Bearer(tok, page) == tok

\* query_files / find_file is called: it first awaits get_access_token
QStart(o) ==
  /\ qpc \in {"idle", "done"}
  /\ ops < MaxOps
  /\ EnterBody(ClientTask)
  /\ qpc' = "token"
  /\ op' = o
  /\ ops' = ops + 1
  /\ token' = 0
  /\ all_files' = <<>>
  /\ page_token' = None
  /\ requests' = <<>>
  /\ responses' = <<>>
  /\ qresult' = NoQResult

QueryFiles ==
  \E q \in Queries : QStart([kind |-> "query", q |-> q])

FindFile ==
  \E name \in Names, parent_id \in Parents :
    QStart([kind |-> "find", q |-> FindQuery(name, parent_id)])

\* let token = self.auth.get_access_token().await?
QToken ==
  /\ qpc = "token"
  /\ pc[ClientTask] = "done"
  /\ IF result[ClientTask].kind = "Ok"
       THEN /\ token' = result[ClientTask].token
            /\ qpc' = "request"
            /\ UNCHANGED qresult
       ELSE /\ qresult' = QErr(result[ClientTask].kind, 0, "")
            /\ qpc' = "done"
            /\ UNCHANGED token
  /\ UNCHANGED <<op, ops, all_files, page_token, requests, responses>>
  /\ UNCHANGED authVars

\* the loop body up to request.send(): pageToken is added when set
QSend ==
  /\ qpc = "request"
  /\ Len(requests) < MaxPages
  /\ requests' = Append(requests, [q |-> op.q,
                                   bearer |-> Bearer(token, page_token),
                                   pageToken |-> page_token])
  /\ qpc' = "await"
  /\ UNCHANGED <<op, ops, token, all_files, page_token, responses, qresult>>
  /\ UNCHANGED authVars

\* send() fails, or the 2xx body is no FileListResponse: `?` returns HttpError
QRecvHttpError ==
  /\ qpc = "await"
  /\ qresult' = QErr("HttpError", 0, "")
  /\ qpc' = "done"
  /\ UNCHANGED <<op, ops, token, all_files, page_token, requests, responses>>
  /\ UNCHANGED authVars

\* a non-2xx response
QRecvError ==
  /\ qpc = "await"
  /\ \E status \in ApiErrStatus, body \in ErrBodies :
       /\ responses' = Append(responses, [status |-> status, files |-> <<>>,
                                          next |-> None, body |-> body])
       /\ qresult' = ApiErrorOf(status, body, all_files)
  /\ qpc' = "done"
  /\ UNCHANGED <<op, ops, token, all_files, page_token, requests>>
  /\ UNCHANGED authVars

\* a 2xx response {files, nextPageToken}: extend, then follow the cursor or
\* break and return
QRecvPage ==
  /\ qpc = "await"
  /\ \E files \in Payloads, next \in {None} \cup {Some(t) : t \in Cursors} :
       /\ responses' = Append(responses, [status |-> 200, files |-> files,
                                          next |-> next,
                                          body |-> [structured |-> FALSE,
                                                    code |-> 0,
                                                    message |-> ""]])
       /\ all_files' = Extend(all_files, files)
       /\ IF IsSome(next)
            THEN /\ page_token' = NextPageToken(page_token, next)
                 /\ qpc' = "request"
                 /\ UNCHANGED qresult
            ELSE /\ qresult' = Returned(op, Extend(all_files, files))
                 /\ qpc' = "done"
                 /\ UNCHANGED page_token
  /\ UNCHANGED <<op, ops, token, requests>>
  /\ UNCHANGED authVars

\* ------------------------------------------------------------- delete_file

\* StatusCode::is_success
IsSuccess(status) == status >= 200 /\ status < 300

\* statuses the provider may answer to DELETE /files/{id}
DeleteStatus == {204, 308, 404, 500}
\* ids of remote files
FileIds == {"f1", "f2"}

\* response.text(): the body as sent, whatever its shape
RawText(body) ==
  IF body.structured
    THEN "{\"error\":{\"code\":" \o ToString(body.code) \o ",\"message\":\""
         \o body.message \o "\"}}"
    ELSE body.message

\* faulty variant: 404 is an error like every other non-2xx status
DeleteOutcomeStrict(status, body) ==
  IF ~IsSuccess(status)
    THEN QErr("ApiError", status, RawText(body))
    ELSE QOk(<<>>, None)
\* what delete_file returns for the provider's answer
DeleteOutcome(status, body) ==
  IF ~IsSuccess(status) /\ status # 404
    THEN QErr("ApiError", status, RawText(body))
    ELSE QOk(<<>>, None)

InitDelete ==
  /\ dpc = "idle"
  /\ file_id = ""
  /\ dsent = 0
  /\ dstatus = 0
  /\ dresult = NoQResult

\* delete_file(file_id) is entered: it first awaits get_access_token
DStart(id) ==
  /\ dpc \in {"idle", "done"}
  /\ EnterBody(ClientTask)
  /\ dpc' = "token"
  /\ file_id' = id
  /\ dsent' = 0
  /\ dstatus' = 0
  /\ dresult' = NoQResult

\* the locals and observations of an earlier delete_file call are dropped
ResetDelete ==
  /\ dpc' = "idle"
  /\ file_id' = ""
  /\ dsent' = 0
  /\ dstatus' = 0
  /\ dresult' = NoQResult

\* the locals and observations of an earlier query_files call are dropped
ResetQuery ==
  /\ qpc' = "idle"
  /\ op' = [kind |-> "none", q |-> <<>>]
  /\ token' = 0
  /\ all_files' = <<>>
  /\ page_token' = None
  /\ requests' = <<>>
  /\ responses' = <<>>
  /\ qresult' = NoQResult

\* let token = self.auth.get_access_token().await?; then the DELETE is sent
DeleteToken ==
  /\ dpc = "token"
  /\ pc[ClientTask] = "done"
  /\ IF result[ClientTask].kind = "Ok"
       THEN /\ token' = result[ClientTask].token
            /\ dsent' = dsent + 1
            /\ dpc' = "await"
            /\ UNCHANGED dresult
       ELSE /\ dresult' = QErr(result[ClientTask].kind, 0, "")
            /\ dpc' = "done"
            /\ UNCHANGED <<token, dsent>>
  /\ UNCHANGED <<file_id, dstatus>>
  /\ UNCHANGED <<qpc, op, ops, all_files, page_token, requests, responses,
                 qresult>>
  /\ UNCHANGED <<authVars, uploadVars>>

\* send() fails: `?` returns HttpError
DeleteRecvHttpError ==
  /\ dpc = "await"
  /\ dresult' = QErr("HttpError", 0, "")
  /\ dpc' = "done"
  /\ UNCHANGED <<file_id, dsent, dstatus>>
  /\ UNCHANGED <<authVars, clientVars, uploadVars>>

\* the provider answers the DELETE
DeleteRecv ==
  /\ dpc = "await"
  /\ \E status \in DeleteStatus, body \in ErrBodies :
       /\ dstatus' = status
       /\ dresult' = DeleteOutcome(status, body)
  /\ dpc' = "done"
  /\ UNCHANGED <<file_id, dsent>>
  /\ UNCHANGED <<authVars, clientVars, uploadVars>>

\* ------------------------------------------------------------------ upload

\* sizes of the local file, in bytes
Sizes == {0, 10 * 1024 * 1024, RESUMABLE_THRESHOLD, RESUMABLE_THRESHOLD + 1,
          7 * CHUNK_SIZE, 100 * 1024 * 1024}
\* lengths a single file.read(&mut buffer) may return short of the buffer
ShortReads == {2 * 1024 * 1024}
\* statuses of the provider's answers to a chunk PUT besides 308
ChunkOkStatus == {200}
ChunkErrStatus == {503}
\* session URLs a Location header may carry, ids of created files
Locations == {"s1"}
NewIds == {"n1"}
\* local paths: local_path.file_name(), None for a path such as ".."
LocalPaths == {None, Some(<<"a">>)}

Min(a, b) == IF a < b THEN a ELSE b

\* what file.read(&mut buffer) may return with `a` bytes left in the file:
\* 0 at end of data only, else between 1 and the buffer's length
ReadLens(a) ==
  IF a = 0 THEN {0}
  ELSE {Min(a, CHUNK_SIZE)} \cup {n \in ShortReads : n < Min(a, CHUNK_SIZE)}

\* bytes the file may hold when it is opened: the file can have been emptied
\* since std::fs::metadata measured it
FileLens(size) == {0, size}

NoPut == [url |-> "", start |-> 0, end |-> 0, total |-> 0, len |-> 0]
NoNote == [bytes_transferred |-> 0, total_bytes |-> 0]
NoInitResp == [status |-> 0, location |-> None]
\* a response body: its text, and the FileMetadata it parses to (its id)
NoBody == [text |-> "", metadata |-> None]

\* faulty variant: a failed delete is ignored
ProceedAlways(r) == TRUE
\* the `?` after find_file(..).await and delete_file(..).await
Proceed(r) == r.kind = "Ok"

\* faulty variant: a file of exactly the threshold takes the chunked path
UseResumableInclusive(size) == size >= RESUMABLE_THRESHOLD
\* if file_size > RESUMABLE_THRESHOLD
UseResumable(size) == size > RESUMABLE_THRESHOLD

\* faulty variant: the last byte's index is the next chunk's first
ChunkEndExclusive(uploaded, bytes_read) == uploaded + bytes_read
\* let chunk_end = bytes_uploaded + bytes_read as u64 - 1
ChunkEnd(uploaded, bytes_read) == uploaded + bytes_read - 1

\* faulty variant: the counter advances by the buffer's length
AdvanceByChunk(uploaded, bytes_read) == uploaded + CHUNK_SIZE
\* bytes_uploaded += bytes_read as u64
Advance(uploaded, bytes_read) == uploaded + bytes_read

\* faulty variant: the final notification reports the counter
FinalNoteCounter(size, uploaded) ==
  [bytes_transferred |-> uploaded, total_bytes |-> size]
\* TransferProgress { bytes_transferred: file_size, total_bytes: file_size }
FinalNote(size, uploaded) ==
  [bytes_transferred |-> size, total_bytes |-> size]

\* faulty variant: the read does not move the file position
UnreadSame(a, bytes_read) == a
\* what is left of the file after file.read returned bytes_read bytes
Unread(a, bytes_read) == a - bytes_read

\* faulty variant: the loop goes on after a failed chunk
AfterChunkErrorRetry == "read"
\* return Err(..) in the last branch of the chunk loop
AfterChunkError == "done"

\* faulty variant: the end of the file ends the upload as a success
LoopExhaustedOk == QOk(<<>>, Some("n1"))
\* the Err after the loop
LoopExhausted ==
  QErr("ApiError", 500, "Upload completed but no final response received")

\* faulty variant: the upload endpoint is used when no Location is given
SessionUrlOrBase(location) ==
  IF IsSome(location) THEN location ELSE Some("UPLOAD_API_BASE")
\* init_response.headers().get("Location")
SessionUrl(location) == location

\* FileMetadata::size values the provider may report, in bytes
MetaSizes == {None, Some(0), Some(3)}
\* the metadata the provider may answer GET /files/{id} with
Metas == {[id |-> "f1", name |-> "r", size |-> s] : s \in MetaSizes}
\* destination arguments
Destinations == {<<"d">>}
\* lengths of the buffers response.bytes_stream() may yield
BufferLens == {1, 2}

NoMediaResp == [status |-> 0,
                body |-> [structured |-> FALSE, code |-> 0, message |-> ""]]

\* metadata.size.unwrap_or(0)
TotalBytes(size) == IF IsSome(size) THEN Unwrap(size) ELSE 0

\* faulty variant: the destination is used as it is
FinalPathVerbatim(dest, dir, name) == dest
\* let final_path = if destination.is_dir() { destination.join(&metadata.name) }
\* else { destination.to_path_buf() }
FinalPath(dest, dir, name) == IF dir THEN Append(dest, name) ELSE dest

\* faulty variant: the counter holds the last buffer's length
DownloadedLast(downloaded, chunk_len) == chunk_len
\* bytes_downloaded += chunk_len
Downloaded(downloaded, chunk_len) == downloaded + chunk_len

\* faulty variant: the callback is called twice for a buffer
NotesAfterBufferTwice(n) == n + 2
\* one callback(..) call in the loop body
NotesAfterBuffer(n) == n + 1

\* the non-2xx branch of the media GET
MediaError(status, body) == QErr("ApiError", status, RawText(body))

InitDownload ==
  /\ gpc = "idle"
  /\ dl_progress = FALSE
  /\ destination = <<>>
  /\ dl_token = 0
  /\ nMeta = 0
  /\ metadata = None
  /\ total_bytes = 0
  /\ is_dir = FALSE
  /\ final_path = None
  /\ nMedia = 0
  /\ mediaResp = NoMediaResp
  /\ created = {}
  /\ nBuffers = 0
  /\ nWritten = 0
  /\ written = 0
  /\ bytes_downloaded = 0
  /\ dl_notes = 0
  /\ dl_note = NoNote
  /\ dl_result = NoQResult

\* the locals and observations of an earlier download call are dropped
ResetDownload ==
  /\ gpc' = "idle"
  /\ dl_progress' = FALSE
  /\ destination' = <<>>
  /\ dl_token' = 0
  /\ nMeta' = 0
  /\ metadata' = None
  /\ total_bytes' = 0
  /\ is_dir' = FALSE
  /\ final_path' = None
  /\ nMedia' = 0
  /\ mediaResp' = NoMediaResp
  /\ created' = {}
  /\ nBuffers' = 0
  /\ nWritten' = 0
  /\ written' = 0
  /\ bytes_downloaded' = 0
  /\ dl_notes' = 0
  /\ dl_note' = NoNote
  /\ dl_result' = NoQResult

InitUpload ==
  /\ upc = "idle"
  /\ filename = None
  /\ progress = FALSE
  /\ lookup = "none"
  /\ existing = None
  /\ matched = {}
  /\ file_size = 0
  /\ nMultipart = 0
  /\ nInit = 0
  /\ initResp = NoInitResp
  /\ upload_url = None
  /\ opened = 0
  /\ fileLen = 0
  /\ avail = 0
  /\ bytes_uploaded = 0
  /\ put = NoPut
  /\ prevPut = NoPut
  /\ nPut = 0
  /\ nFull = 0
  /\ putStatus = 0
  /\ putBody = NoBody
  /\ eof = FALSE
  /\ n308 = 0
  /\ acked = 0
  /\ nNotes = 0
  /\ note = NoNote
  /\ uresult = NoQResult

\* the locals and observations of an earlier upload call are dropped
ResetUpload ==
  /\ lookup' = "none"
  /\ existing' = None
  /\ matched' = {}
  /\ file_size' = 0
  /\ nMultipart' = 0
  /\ nInit' = 0
  /\ initResp' = NoInitResp
  /\ upload_url' = None
  /\ opened' = 0
  /\ fileLen' = 0
  /\ avail' = 0
  /\ bytes_uploaded' = 0
  /\ put' = NoPut
  /\ prevPut' = NoPut
  /\ nPut' = 0
  /\ nFull' = 0
  /\ putStatus' = 0
  /\ putBody' = NoBody
  /\ eof' = FALSE
  /\ n308' = 0
  /\ acked' = 0
  /\ nNotes' = 0
  /\ note' = NoNote

\* the upload call ends with result r
UReturn(r) ==
  /\ uresult' = r
  /\ upc' = "done"

\* delete_file(file_id) is called by the client's user
DeleteFile ==
  /\ upc \in {"idle", "done"}
  /\ qpc \in {"idle", "done"}
  /\ gpc \in {"idle", "done"}
  /\ ResetDownload
  /\ ops < MaxTransfers
  /\ \E id \in FileIds : DStart(id)
  /\ ops' = ops + 1
  /\ ResetQuery
  /\ ResetUpload
  /\ upc' = "idle"
  /\ uresult' = NoQResult
  /\ filename' = None
  /\ progress' = FALSE

\* upload_file_with_progress(local_path, parent_id, progress) is called: a
\* path without a file name fails at once, else find_file is awaited
UploadFile ==
  /\ upc \in {"idle", "done"}
  /\ dpc \in {"idle", "done"}
  /\ qpc \in {"idle", "done"}
  /\ gpc \in {"idle", "done"}
  /\ ResetDownload
  /\ ops < MaxTransfers
  /\ \E path \in LocalPaths, parent_id \in Parents, callback \in BOOLEAN :
       /\ filename' = path
       /\ progress' = callback
       /\ IF IsSome(path)
            THEN /\ QStart([kind |-> "find",
                            q |-> FindQuery(Unwrap(path), parent_id)])
                 /\ upc' = "find"
                 /\ lookup' = "pending"
                 /\ uresult' = NoQResult
            ELSE /\ UReturn(QErr("FileNotFound", 0, ""))
                 /\ lookup' = "none"
                 /\ ops' = ops + 1
                 /\ ResetQuery
                 /\ UNCHANGED authVars
  /\ existing' = None
  /\ matched' = {}
  /\ file_size' = 0
  /\ nMultipart' = 0
  /\ ResetDelete
  /\ nInit' = 0
  /\ initResp' = NoInitResp
  /\ upload_url' = None
  /\ opened' = 0
  /\ fileLen' = 0
  /\ avail' = 0
  /\ bytes_uploaded' = 0
  /\ put' = NoPut
  /\ prevPut' = NoPut
  /\ nPut' = 0
  /\ nFull' = 0
  /\ putStatus' = 0
  /\ putBody' = NoBody
  /\ eof' = FALSE
  /\ n308' = 0
  /\ acked' = 0
  /\ nNotes' = 0
  /\ note' = NoNote

\* find_file has returned: its error is returned, or the file it found is
\* deleted by delete_file, or the upload goes on
AfterFindFile ==
  /\ upc = "find"
  /\ qpc = "done"
  /\ IF ~Proceed(qresult)
       THEN /\ UReturn(qresult)
            /\ lookup' = "failed"
            /\ UNCHANGED <<existing, matched, delVars, authVars>>
            /\ UNCHANGED <<qpc, op, token, all_files, page_token, requests,
                           responses, qresult>>
       ELSE IF IsSome(qresult.found)
         THEN /\ lookup' = "found"
              /\ existing' = qresult.found
              /\ matched' = {all_files[i] : i \in 1..Len(all_files)}
              /\ DStart(Unwrap(qresult.found))
              /\ upc' = "delete"
              /\ ResetQuery
              /\ UNCHANGED uresult
         ELSE /\ lookup' = "absent"
              /\ upc' = "stat"
              /\ ResetQuery
              /\ UNCHANGED <<existing, matched, uresult, delVars, authVars>>
  /\ UNCHANGED <<ops, filename, progress, file_size, nMultipart, chunkVars>>

\* delete_file has returned: its error is returned, or the upload goes on
AfterDeleteFile ==
  /\ upc = "delete"
  /\ dpc = "done"
  /\ IF Proceed(dresult)
       THEN /\ upc' = "stat"
            /\ UNCHANGED uresult
       ELSE UReturn(dresult)
  /\ matched' = {}
  /\ UNCHANGED <<authVars, clientVars, delVars, filename, progress, lookup,
                 existing, file_size, nMultipart, chunkVars>>

\* std::fs::metadata(local_path) fails
MeasureError ==
  /\ upc = "stat"
  /\ UReturn(QErr("FileReadError", 0, ""))
  /\ UNCHANGED <<authVars, clientVars, delVars, callVars, nMultipart,
                 chunkVars>>

\* std::fs::metadata(local_path) gives the size; upload_resumable or
\* upload_multipart is entered and awaits get_access_token
Measure ==
  /\ upc = "stat"
  /\ \E size \in Sizes :
       /\ file_size' = size
       /\ upc' = IF UseResumable(size) THEN "resumable_token"
                                       ELSE "multipart_token"
  /\ EnterBody(ClientTask)
  /\ UNCHANGED <<clientVars, delVars, filename, progress, lookup, existing,
                 matched,
                 nMultipart, chunkVars, uresult>>

\* upload_multipart: the token, File::open, and the multipart POST is sent
MultipartToken ==
  /\ upc = "multipart_token"
  /\ pc[ClientTask] = "done"
  /\ IF result[ClientTask].kind # "Ok"
       THEN /\ UReturn(QErr(result[ClientTask].kind, 0, ""))
            /\ UNCHANGED <<token, opened, nMultipart>>
       ELSE /\ token' = result[ClientTask].token
            /\ opened' = opened + 1
            /\ \/ /\ UReturn(QErr("FileReadError", 0, ""))
                  /\ UNCHANGED nMultipart
               \/ /\ nMultipart' = nMultipart + 1
                  /\ upc' = "multipart_await"
                  /\ UNCHANGED uresult
  /\ UNCHANGED <<qpc, op, ops, all_files, page_token, requests, responses,
                 qresult>>
  /\ UNCHANGED <<authVars, delVars, callVars>>
  /\ UNCHANGED <<nInit, initResp, upload_url, fileLen, avail, bytes_uploaded,
                 put, prevPut, nPut, nFull, putStatus, putBody, eof, n308, acked,
                 nNotes, note>>

\* send() fails, or the 2xx body is no FileMetadata
MultipartRecvHttpError ==
  /\ upc = "multipart_await"
  /\ UReturn(QErr("HttpError", 0, ""))
  /\ UNCHANGED <<authVars, clientVars, delVars, callVars, nMultipart,
                 chunkVars>>

\* a non-2xx answer to the multipart POST
MultipartRecvError ==
  /\ upc = "multipart_await"
  /\ \E status \in ApiErrStatus, body \in ErrBodies :
       UReturn(ApiErrorOf(status, body, <<>>))
  /\ UNCHANGED <<authVars, clientVars, delVars, callVars, nMultipart,
                 chunkVars>>

\* a 2xx answer carrying the created file's metadata
MultipartRecvOk ==
  /\ upc = "multipart_await"
  /\ \E id \in NewIds : UReturn(QOk(<<>>, Some(id)))
  /\ UNCHANGED <<authVars, clientVars, delVars, callVars, nMultipart,
                 chunkVars>>

\* upload_resumable: the token, and the resumable-init POST is sent
ResumableToken ==
  /\ upc = "resumable_token"
  /\ pc[ClientTask] = "done"
  /\ IF result[ClientTask].kind # "Ok"
       THEN /\ UReturn(QErr(result[ClientTask].kind, 0, ""))
            /\ UNCHANGED <<token, nInit>>
       ELSE /\ token' = result[ClientTask].token
            /\ nInit' = nInit + 1
            /\ upc' = "init_await"
            /\ UNCHANGED uresult
  /\ UNCHANGED <<qpc, op, ops, all_files, page_token, requests, responses,
                 qresult>>
  /\ UNCHANGED <<authVars, delVars, callVars, nMultipart>>
  /\ UNCHANGED <<initResp, upload_url, opened, fileLen, avail, bytes_uploaded,
                 put, prevPut, nPut, nFull, putStatus, putBody, eof, n308, acked,
                 nNotes, note>>

\* send() of the init POST fails
InitRecvHttpError ==
  /\ upc = "init_await"
  /\ UReturn(QErr("HttpError", 0, ""))
  /\ UNCHANGED <<authVars, clientVars, delVars, callVars, nMultipart,
                 chunkVars>>

\* a non-2xx answer to the init POST
InitRecvError ==
  /\ upc = "init_await"
  /\ \E status \in ApiErrStatus, body \in ErrBodies :
       /\ initResp' = [status |-> status, location |-> None]
       /\ UReturn(QErr("ApiError", status, RawText(body)))
  /\ UNCHANGED <<authVars, clientVars, delVars, callVars, nMultipart>>
  /\ UNCHANGED <<nInit, upload_url, opened, fileLen, avail, bytes_uploaded,
                 put, prevPut, nPut, nFull, putStatus, putBody, eof, n308, acked,
                 nNotes, note>>

\* a 2xx answer to the init POST: without a Location header the call fails,
\* else the local file is opened
InitRecvOk ==
  /\ upc = "init_await"
  /\ \E location \in {None} \cup {Some(u) : u \in Locations} :
       /\ initResp' = [status |-> 200, location |-> location]
       /\ upload_url' = SessionUrl(location)
       /\ IF ~IsSome(SessionUrl(location))
            THEN /\ UReturn(QErr("ApiError", 500,
                                 "No upload URL in response"))
                 /\ UNCHANGED <<opened, fileLen, avail>>
            ELSE /\ opened' = opened + 1
                 /\ \/ /\ UReturn(QErr("FileReadError", 0, ""))
                       /\ UNCHANGED <<fileLen, avail>>
                    \/ /\ \E len \in FileLens(file_size) :
                            /\ fileLen' = len
                            /\ avail' = len
                       /\ upc' = "read"
                       /\ UNCHANGED uresult
  /\ UNCHANGED <<authVars, clientVars, delVars, callVars, nMultipart>>
  /\ UNCHANGED <<nInit, bytes_uploaded, put, prevPut, nPut, nFull, putStatus,
                 putBody, eof, n308, acked, nNotes, note>>

\* file.read(&mut buffer) fails
ReadError ==
  /\ upc = "read"
  /\ UReturn(QErr("FileReadError", 0, ""))
  /\ UNCHANGED <<authVars, clientVars, delVars, callVars, nMultipart,
                 chunkVars>>

\* file.read(&mut buffer) returns 0: the loop is left
ReadEnd ==
  /\ upc = "read"
  /\ 0 \in ReadLens(avail)
  /\ eof' = TRUE
  /\ UReturn(LoopExhausted)
  /\ UNCHANGED <<authVars, clientVars, delVars, callVars, nMultipart>>
  /\ UNCHANGED <<nInit, initResp, upload_url, opened, fileLen, avail,
                 bytes_uploaded, put, prevPut, nPut, nFull, putStatus,
                 putBody, n308, acked, nNotes, note>>

\* file.read(&mut buffer) returns bytes_read > 0: the chunk is PUT to
\* upload_url with Content-Range bytes start-end/total
ReadChunk ==
  /\ upc = "read"
  /\ nPut < MaxPuts
  /\ \E bytes_read \in ReadLens(avail) \ {0} :
       /\ avail' = Unread(avail, bytes_read)
       /\ put' = [url |-> Unwrap(upload_url),
                  start |-> bytes_uploaded,
                  end |-> ChunkEnd(bytes_uploaded, bytes_read),
                  total |-> file_size,
                  len |-> bytes_read]
       /\ nFull' = IF bytes_read = CHUNK_SIZE THEN nFull + 1 ELSE nFull
  /\ prevPut' = put
  /\ nPut' = nPut + 1
  /\ putStatus' = 0
  /\ putBody' = NoBody
  /\ eof' = FALSE
  /\ upc' = "put_await"
  /\ UNCHANGED <<authVars, clientVars, delVars, callVars, nMultipart>>
  /\ UNCHANGED <<nInit, initResp, upload_url, opened, fileLen,
                 bytes_uploaded, n308, acked, nNotes, note, uresult>>

\* send() of the chunk PUT fails
PutRecvHttpError ==
  /\ upc = "put_await"
  /\ UReturn(QErr("HttpError", 0, ""))
  /\ UNCHANGED <<authVars, clientVars, delVars, callVars, nMultipart,
                 chunkVars>>

\* 308 Resume Incomplete: the counter advances, progress is reported and the
\* loop goes on
PutRecv308 ==
  /\ upc = "put_await"
  /\ putStatus' = 308
  /\ n308' = n308 + 1
  /\ acked' = acked + put.len
  /\ bytes_uploaded' = Advance(bytes_uploaded, put.len)
  /\ IF progress
       THEN /\ nNotes' = nNotes + 1
            /\ note' = [bytes_transferred |->
                          Advance(bytes_uploaded, put.len),
                        total_bytes |-> file_size]
       ELSE UNCHANGED <<nNotes, note>>
  /\ upc' = "read"
  /\ UNCHANGED <<authVars, clientVars, delVars, callVars, nMultipart>>
  /\ UNCHANGED <<nInit, initResp, upload_url, opened, fileLen, avail, put,
                 prevPut, nPut, nFull, putBody, eof, uresult>>

\* another 2xx: the final progress is reported, then the body is parsed as
\* FileMetadata and returned, or is no FileMetadata and `?` returns HttpError
PutRecvOk ==
  /\ upc = "put_await"
  /\ \E status \in ChunkOkStatus : putStatus' = status
  /\ IF progress
       THEN /\ nNotes' = nNotes + 1
            /\ note' = FinalNote(file_size, bytes_uploaded)
       ELSE UNCHANGED <<nNotes, note>>
  /\ \/ \E id \in NewIds :
          /\ putBody' = [text |-> "", metadata |-> Some(id)]
          /\ UReturn(QOk(<<>>, Some(id)))
     \/ /\ putBody' = [text |-> "not json", metadata |-> None]
        /\ UReturn(QErr("HttpError", 0, ""))
  /\ UNCHANGED <<authVars, clientVars, delVars, callVars, nMultipart>>
  /\ UNCHANGED <<nInit, initResp, upload_url, opened, fileLen, avail,
                 bytes_uploaded, put, prevPut, nPut, nFull, eof, n308,
                 acked>>

\* any other status: the call fails with the status and the body
PutRecvError ==
  /\ upc = "put_await"
  /\ \E status \in ChunkErrStatus, body \in ErrBodies :
       /\ putStatus' = status
       /\ putBody' = [text |-> RawText(body), metadata |-> None]
       /\ uresult' = QErr("ApiError", status, RawText(body))
  /\ upc' = AfterChunkError
  /\ UNCHANGED <<authVars, clientVars, delVars, callVars, nMultipart>>
  /\ UNCHANGED <<nInit, initResp, upload_url, opened, fileLen, avail,
                 bytes_uploaded, put, prevPut, nPut, nFull, eof, n308, acked,
                 nNotes, note>>

\* ---------------------------------------------------------------- download

\* the download call ends with result r
DReturn(r) ==
  /\ dl_result' = r
  /\ gpc' = "done"

\* download_file_with_progress(file_id, destination, progress) is called: it
\* first awaits get_access_token
DownloadFile ==
  /\ gpc \in {"idle", "done"}
  /\ upc \in {"idle", "done"}
  /\ dpc \in {"idle", "done"}
  /\ qpc \in {"idle", "done"}
  /\ ops < MaxTransfers
  /\ EnterBody(ClientTask)
  /\ ops' = ops + 1
  /\ \E callback \in BOOLEAN, dest \in Destinations :
       /\ dl_progress' = callback
       /\ destination' = dest
  /\ gpc' = "token"
  /\ dl_token' = 0
  /\ nMeta' = 0
  /\ metadata' = None
  /\ total_bytes' = 0
  /\ is_dir' = FALSE
  /\ final_path' = None
  /\ nMedia' = 0
  /\ mediaResp' = NoMediaResp
  /\ created' = {}
  /\ nBuffers' = 0
  /\ nWritten' = 0
  /\ written' = 0
  /\ bytes_downloaded' = 0
  /\ dl_notes' = 0
  /\ dl_note' = NoNote
  /\ dl_result' = NoQResult
  /\ ResetQuery
  /\ ResetDelete
  /\ ResetUpload
  /\ upc' = "idle"
  /\ uresult' = NoQResult
  /\ filename' = None
  /\ progress' = FALSE
  /\ UNCHANGED otherVars

\* let token = self.auth.get_access_token().await?; then get_file is entered
\* and awaits get_access_token itself
DownloadToken ==
  /\ gpc = "token"
  /\ pc[ClientTask] = "done"
  /\ IF result[ClientTask].kind = "Ok"
       THEN /\ dl_token' = result[ClientTask].token
            /\ EnterBody(ClientTask)
            /\ gpc' = "meta_token"
            /\ UNCHANGED dl_result
       ELSE /\ DReturn(QErr(result[ClientTask].kind, 0, ""))
            /\ UNCHANGED <<dl_token, authVars>>
  /\ UNCHANGED <<dl_progress, destination, nMeta, metadata, total_bytes,
                 is_dir, final_path, nMedia, mediaResp, created, nBuffers,
                 nWritten, written, bytes_downloaded, dl_notes, dl_note>>
  /\ UNCHANGED <<clientVars, delVars, uploadVars, otherVars>>

\* get_file: let token = self.auth.get_access_token().await?; then the
\* metadata GET is sent
GetFileToken ==
  /\ gpc = "meta_token"
  /\ pc[ClientTask] = "done"
  /\ IF result[ClientTask].kind = "Ok"
       THEN /\ token' = result[ClientTask].token
            /\ nMeta' = nMeta + 1
            /\ gpc' = "meta_await"
            /\ UNCHANGED dl_result
       ELSE /\ DReturn(QErr(result[ClientTask].kind, 0, ""))
            /\ UNCHANGED <<token, nMeta>>
  /\ UNCHANGED <<dl_progress, destination, dl_token, metadata, total_bytes,
                 is_dir, final_path, nMedia, mediaResp, created, nBuffers,
                 nWritten, written, bytes_downloaded, dl_notes, dl_note>>
  /\ UNCHANGED <<qpc, op, ops, all_files, page_token, requests, responses,
                 qresult>>
  /\ UNCHANGED <<authVars, delVars, uploadVars, otherVars>>

\* get_file: send() fails, or the 2xx body is no FileMetadata; the `?` after
\* get_file(..).await returns the error
GetFileRecvHttpError ==
  /\ gpc = "meta_await"
  /\ DReturn(QErr("HttpError", 0, ""))
  /\ UNCHANGED <<dl_progress, destination, dl_token, nMeta, metadata,
                 total_bytes, is_dir, final_path, nMedia, mediaResp, created,
                 nBuffers, nWritten, written, bytes_downloaded, dl_notes,
                 dl_note>>
  /\ UNCHANGED <<authVars, clientVars, delVars, uploadVars, otherVars>>

\* get_file: a non-2xx answer to the metadata GET
GetFileRecvError ==
  /\ gpc = "meta_await"
  /\ \E status \in ApiErrStatus, body \in ErrBodies :
       DReturn(ApiErrorOf(status, body, <<>>))
  /\ UNCHANGED <<dl_progress, destination, dl_token, nMeta, metadata,
                 total_bytes, is_dir, final_path, nMedia, mediaResp, created,
                 nBuffers, nWritten, written, bytes_downloaded, dl_notes,
                 dl_note>>
  /\ UNCHANGED <<authVars, clientVars, delVars, uploadVars, otherVars>>

\* get_file returns the metadata: total_bytes and final_path are computed and
\* the media GET is sent
GetFileRecvOk ==
  /\ gpc = "meta_await"
  /\ \E m \in Metas, dir \in BOOLEAN :
       /\ metadata' = Some(m)
       /\ total_bytes' = TotalBytes(m.size)
       /\ is_dir' = dir
       /\ final_path' = Some(FinalPath(destination, dir, m.name))
  /\ nMedia' = nMedia + 1
  /\ gpc' = "media_await"
  /\ UNCHANGED <<dl_progress, destination, dl_token, nMeta, mediaResp,
                 created, nBuffers, nWritten, written, bytes_downloaded,
                 dl_notes, dl_note, dl_result>>
  /\ UNCHANGED <<authVars, clientVars, delVars, uploadVars, otherVars>>

\* send() of the media GET fails
MediaRecvHttpError ==
  /\ gpc = "media_await"
  /\ DReturn(QErr("HttpError", 0, ""))
  /\ UNCHANGED <<dl_progress, destination, dl_token, nMeta, metadata,
                 total_bytes, is_dir, final_path, nMedia, mediaResp, created,
                 nBuffers, nWritten, written, bytes_downloaded, dl_notes,
                 dl_note>>
  /\ UNCHANGED <<authVars, clientVars, delVars, uploadVars, otherVars>>

\* a non-2xx answer to the media GET
MediaRecvError ==
  /\ gpc = "media_await"
  /\ \E status \in ApiErrStatus, body \in ErrBodies :
       /\ mediaResp' = [status |-> status, body |-> body]
       /\ DReturn(MediaError(status, body))
  /\ UNCHANGED <<dl_progress, destination, dl_token, nMeta, metadata,
                 total_bytes, is_dir, final_path, nMedia, created, nBuffers,
                 nWritten, written, bytes_downloaded, dl_notes, dl_note>>
  /\ UNCHANGED <<authVars, clientVars, delVars, uploadVars, otherVars>>

\* a 2xx answer to the media GET: File::create(&final_path) fails, or creates
\* or truncates the file
MediaRecvOk ==
  /\ gpc = "media_await"
  /\ mediaResp' = [NoMediaResp EXCEPT !.status = 200]
  /\ \/ /\ DReturn(QErr("FileWriteError", 0, ""))
        /\ UNCHANGED created
     \/ /\ created' = created \cup {Unwrap(final_path)}
        /\ gpc' = "stream"
        /\ UNCHANGED dl_result
  /\ UNCHANGED <<dl_progress, destination, dl_token, nMeta, metadata,
                 total_bytes, is_dir, final_path, nMedia, nBuffers, nWritten,
                 written, bytes_downloaded, dl_notes, dl_note>>
  /\ UNCHANGED <<authVars, clientVars, delVars, uploadVars, otherVars>>

\* stream.next() yields a buffer: write_all fails, or the buffer is written,
\* counted and reported
StreamChunk ==
  /\ gpc = "stream"
  /\ nBuffers < MaxBuffers
  /\ nBuffers' = nBuffers + 1
  /\ \E chunk_len \in BufferLens :
       \/ /\ DReturn(QErr("FileWriteError", 0, ""))
          /\ UNCHANGED <<nWritten, written, bytes_downloaded, dl_notes,
                         dl_note>>
       \/ /\ nWritten' = nWritten + 1
          /\ written' = written + chunk_len
          /\ bytes_downloaded' = Downloaded(bytes_downloaded, chunk_len)
          /\ IF dl_progress
               THEN /\ dl_notes' = NotesAfterBuffer(dl_notes)
                    /\ dl_note' = [bytes_transferred |->
                                     Downloaded(bytes_downloaded, chunk_len),
                                   total_bytes |-> total_bytes]
               ELSE UNCHANGED <<dl_notes, dl_note>>
          /\ UNCHANGED <<gpc, dl_result>>
  /\ UNCHANGED <<dl_progress, destination, dl_token, nMeta, metadata,
                 total_bytes, is_dir, final_path, nMedia, mediaResp, created>>
  /\ UNCHANGED <<authVars, clientVars, delVars, uploadVars, otherVars>>

\* faulty variant: the partial file is removed when the stream fails
AfterStreamErrorRemove(files, path) == files \ {path}
\* the files on disk after `chunk?` has returned: nothing is removed
AfterStreamError(files, path) == files

\* stream.next() yields an error: `chunk?` returns HttpError
StreamError ==
  /\ gpc = "stream"
  /\ DReturn(QErr("HttpError", 0, ""))
  /\ created' = AfterStreamError(created, Unwrap(final_path))
  /\ UNCHANGED <<dl_progress, destination, dl_token, nMeta, metadata,
                 total_bytes, is_dir, final_path, nMedia, mediaResp,
                 nBuffers, nWritten, written, bytes_downloaded, dl_notes,
                 dl_note>>
  /\ UNCHANGED <<authVars, clientVars, delVars, uploadVars, otherVars>>

\* the stream ends: file.flush() fails, or Ok(metadata) is returned
StreamEnd ==
  /\ gpc = "stream"
  /\ \/ DReturn(QErr("FileWriteError", 0, ""))
     \/ DReturn(QOk(<<>>, metadata))
  /\ UNCHANGED <<dl_progress, destination, dl_token, nMeta, metadata,
                 total_bytes, is_dir, final_path, nMedia, mediaResp, created,
                 nBuffers, nWritten, written, bytes_downloaded, dl_notes,
                 dl_note>>
  /\ UNCHANGED <<authVars, clientVars, delVars, uploadVars, otherVars>>

\* ------------------------------------------------------ the upload command

\* local files, numbered in the order PathBuf's Ord puts them in
Paths == 1..NumPaths
\* what the patterns may match, in the order found: a file can match twice
MatchLists == UNION {[1..n -> Paths] : n \in 0..MaxMatches}
\* what an upload_file call may return
UploadOutcomes == {"Ok", "Err"}

RECURSIVE Sort(_)
\* files_to_upload.sort()
Sort(s) ==
  IF s = <<>> THEN <<>>
  ELSE LET i == CHOOSE j \in 1..Len(s) : \A k \in 1..Len(s) : s[j] <= s[k]
       IN  <<s[i]>> \o Sort(SubSeq(s, 1, i - 1) \o SubSeq(s, i + 1, Len(s)))

RECURSIVE Dedup(_)
\* files_to_upload.dedup(): consecutive repeats are removed
Dedup(s) ==
  IF Len(s) <= 1 THEN s
  ELSE IF s[1] = s[2] THEN Dedup(Tail(s))
  ELSE <<s[1]>> \o Dedup(Tail(s))

\* faulty variant: the loop is left at the first failed upload
NextIndexStop(i, outcome, n) == IF outcome = "Ok" THEN i + 1 ELSE n
\* both arms of the match on upload_file's result fall through to the next
\* iteration
NextIndex(i, outcome, n) == i + 1

InitBatch ==
  /\ cpc = "idle"
  /\ matches = <<>>
  /\ files_to_upload = <<>>
  /\ idx = 0
  /\ attempts = <<>>
  /\ cresult = "none"

\* the patterns have been expanded: the list is sorted and deduplicated, and
\* the command fails when it is empty
Collect ==
  /\ cpc = "start"
  /\ files_to_upload' = Dedup(Sort(matches))
  /\ IF Dedup(Sort(matches)) = <<>>
       THEN /\ cresult' = "No files to upload"
            /\ cpc' = "done"
       ELSE /\ cpc' = "loop"
            /\ UNCHANGED cresult
  /\ UNCHANGED <<matches, idx, attempts>>
  /\ UNCHANGED <<authVars, clientVars, delVars, uploadVars, dlVars, fnVars>>

\* one iteration of the loop: client.upload_file(file_path, &folder_id) is
\* awaited and its outcome printed
UploadOne ==
  /\ cpc = "loop"
  /\ idx < Len(files_to_upload)
  /\ \E outcome \in UploadOutcomes :
       /\ attempts' = Append(attempts, [file |-> files_to_upload[idx + 1],
                                        outcome |-> outcome])
       /\ idx' = NextIndex(idx, outcome, Len(files_to_upload))
  /\ UNCHANGED <<cpc, matches, files_to_upload, cresult>>
  /\ UNCHANGED <<authVars, clientVars, delVars, uploadVars, dlVars, fnVars>>

\* the loop is over: "Done." and Ok(())
Finish ==
  /\ cpc = "loop"
  /\ idx >= Len(files_to_upload)
  /\ cresult' = "Ok"
  /\ cpc' = "done"
  /\ UNCHANGED <<matches, files_to_upload, idx, attempts>>
  /\ UNCHANGED <<authVars, clientVars, delVars, uploadVars, dlVars, fnVars>>

\* -------------------------------------------------------- TransferProgress

\* an f64 is the fraction num/den: den > 0 for a finite value, 0/0 is NaN and
\* 1/0, -1/0 are the infinities
F64(n) == [num |-> n, den |-> 1]
NaN == [num |-> 0, den |-> 0]
IsNaN(x) == x.den = 0 /\ x.num = 0
Sign(n) == IF n > 0 THEN 1 ELSE IF n < 0 THEN -1 ELSE 0
\* x <= 0.0: false for NaN
LeZero(x) == ~IsNaN(x) /\ x.num <= 0
\* x / y of two finite values or NaN
FDiv(x, y) ==
  IF IsNaN(x) \/ IsNaN(y) \/ (x.num = 0 /\ y.num = 0) THEN NaN
  ELSE IF y.num = 0 THEN [num |-> Sign(x.num), den |-> 0]
  ELSE IF y.num > 0 THEN [num |-> x.num * y.den, den |-> x.den * y.num]
  ELSE [num |-> (0 - x.num) * y.den, den |-> x.den * (0 - y.num)]
\* x * y
FMul(x, y) ==
  IF IsNaN(x) \/ IsNaN(y) THEN NaN
  ELSE [num |-> x.num * y.num, den |-> x.den * y.den]
\* bytes_per_second values
Speeds == {F64(0 - 1), F64(0), F64(1), F64(2), [num |-> 1, den |-> 2], NaN}
\* the TransferProgress values the functions are applied to
Progresses ==
  [bytes_transferred : 0..MaxBytes, total_bytes : 0..MaxBytes,
   bytes_per_second : Speeds]

\* faulty variant: a plain signed subtraction
PlainSub(a, b) == a - b
\* u64::saturating_sub
SaturatingSub(a, b) == IF a >= b THEN a - b ELSE 0

\* TransferProgress::eta_seconds
eta_seconds(self) ==
  IF LeZero(self.bytes_per_second) THEN None
  ELSE LET remaining == SaturatingSub(self.total_bytes,
                                      self.bytes_transferred)
       IN  Some(FDiv(F64(remaining), self.bytes_per_second))

\* TransferProgress::percent
percent(self) ==
  IF self.total_bytes = 0 THEN F64(100)
  ELSE FMul(FDiv(F64(self.bytes_transferred), F64(self.total_bytes)),
            F64(100))

InitFn ==
  /\ fn = "none"
  /\ input = <<>>
  /\ output = <<>>

\* the function named f is applied to the input and returns r
Apply(f, r) ==
  /\ fn = "none"
  /\ fn' = f
  /\ output' = r
  /\ UNCHANGED input
  /\ UNCHANGED <<authVars, clientVars, delVars, uploadVars, dlVars,
                 batchVars>>

EtaSeconds == Apply("eta_seconds", eta_seconds(input))
Percent == Apply("percent", percent(input))

\* ------------------------------------------------- Authenticator::from_file

\* the keys a credentials document may carry
JsonFields == {"client_email", "private_key", "token_uri", "type",
               "project_id"}
\* the file at `path`: missing, no JSON, or a JSON object with some of the
\* keys, whose private_key is or is not a PEM key
NoFile == [exists |-> FALSE, json |-> FALSE, fields |-> {}, pem |-> FALSE]
NotJson == [exists |-> TRUE, json |-> FALSE, fields |-> {}, pem |-> FALSE]
CredFiles ==
  {NoFile, NotJson} \cup
  {[exists |-> TRUE, json |-> TRUE, fields |-> f, pem |-> k] :
     f \in SUBSET JsonFields, k \in BOOLEAN}

\* faulty variant: the private key is validated when the file is parsed
ParsesWithKey(file) ==
  file.json /\ {"client_email", "private_key"} \subseteq file.fields
  /\ file.pem
\* serde_json::from_str::<ServiceAccountCredentials>: client_email and
\* private_key are required, token_uri is optional, other keys are ignored
Parses(file) ==
  file.json /\ {"client_email", "private_key"} \subseteq file.fields

\* Authenticator::new
New(credentials) == [credentials |-> credentials, cached_token |-> None]

\* Authenticator::from_file
from_file(file) ==
  IF ~file.exists
    THEN [kind |-> "CredentialsFileError", value |-> <<>>]
  ELSE IF ~Parses(file)
    THEN [kind |-> "CredentialsParseError", value |-> <<>>]
  ELSE [kind |-> "Ok",
        value |-> New([pem |-> file.pem,
                       token_uri |-> "token_uri" \in file.fields])]

FromFile == Apply("from_file", from_file(input))

\* --------------------------------------------------------------- extract_id

\* a string is the sequence of its characters
\* "https://"
Https ==
  <<"h", "t", "t", "p", "s", ":", "/", "/">>
\* "http://"
Http ==
  <<"h", "t", "t", "p", ":", "/", "/">>
\* "ftp://"
Ftp ==
  <<"f", "t", "p", ":", "/", "/">>
\* "drive.google.com"
DriveHost ==
  <<"d", "r", "i", "v", "e", ".", "g", "o", "o", "g", "l", "e", ".", "c",
    "o", "m">>
\* "drive-google.com"
OtherHost ==
  <<"d", "r", "i", "v", "e", "-", "g", "o", "o", "g", "l", "e", ".", "c",
    "o", "m">>
\* "/drive/"
DrivePath ==
  <<"/", "d", "r", "i", "v", "e", "/">>
\* "u/"
UserSegment ==
  <<"u", "/">>
\* "folders/"
FoldersPath ==
  <<"f", "o", "l", "d", "e", "r", "s", "/">>
\* "/file/d/"
FilePath ==
  <<"/", "f", "i", "l", "e", "/", "d", "/">>
\* "/open?id="
OpenPath ==
  <<"/", "o", "p", "e", "n", "?", "i", "d", "=">>

Lower == {"a", "b", "c", "d", "e", "f", "g", "h", "i", "j", "k", "l", "m",
          "n", "o", "p", "q", "r", "s", "t", "u", "v", "w", "x", "y", "z"}
Upper == {"A", "B", "C", "D", "E", "F", "G", "H", "I", "J", "K", "L", "M",
          "N", "O", "P", "Q", "R", "S", "T", "U", "V", "W", "X", "Y", "Z"}
\* \d, as far as the inputs below go
Digits == {"0", "1", "2", "3", "4", "5", "6", "7", "8", "9"}
\* [a-zA-Z0-9_-]
IdChars == Lower \cup Upper \cup Digits \cup {"_", "-"}
\* char::is_whitespace, as far as the inputs below go
WhiteSpace == {" ", "\t", "\n"}

\* the inputs: a scheme, a host, a path and a tail, or a tail alone, with or
\* without whitespace around
Schemes == {Https, Http, Ftp}
Hosts == {DriveHost, OtherHost}
UrlPaths ==
  {DrivePath \o FoldersPath,
   DrivePath \o UserSegment \o <<"0", "/">> \o FoldersPath,
   DrivePath \o UserSegment \o <<"1", "2", "/">> \o FoldersPath,
   DrivePath \o UserSegment \o <<"/">> \o FoldersPath,
   DrivePath \o UserSegment \o <<"x", "/">> \o FoldersPath,
   DrivePath \o UserSegment \o <<"0">> \o FoldersPath,
   FilePath, OpenPath, DrivePath, <<"/">>, <<>>}
TailChars == {"a", "Z", "7", "_", "-", "/", " "}
Tails == UNION {[1..n -> TailChars] : n \in 0..MaxTail}
Pads == {<<>>, <<"\t", " ", "\n">>}
Inputs ==
  {l \o body \o r :
     l \in Pads, r \in Pads,
     body \in {s \o h \o p \o t :
                s \in Schemes, h \in Hosts, p \in UrlPaths, t \in Tails}
              \cup Tails}

StartsWith(s, p) == Len(s) >= Len(p) /\ SubSeq(s, 1, Len(p)) = p
Drop(s, n) == SubSeq(s, n + 1, Len(s))

RECURSIVE TrimStart(_)
TrimStart(s) ==
  IF s # <<>> /\ s[1] \in WhiteSpace THEN TrimStart(Tail(s)) ELSE s
RECURSIVE TrimEnd(_)
TrimEnd(s) ==
  IF s # <<>> /\ s[Len(s)] \in WhiteSpace
    THEN TrimEnd(SubSeq(s, 1, Len(s) - 1)) ELSE s
\* str::trim
Trim(s) == TrimEnd(TrimStart(s))

RECURSIVE Run(_, _)
\* the longest prefix of s made of characters of the class: what a greedy
\* [..]+ or \d+ consumes
Run(s, class) ==
  IF s # <<>> /\ s[1] \in class THEN <<s[1]>> \o Run(Tail(s), class)
  ELSE <<>>

\* a literal of the pattern is matched at the position reached, if any
Literal(o, p) ==
  IF IsSome(o) /\ StartsWith(Unwrap(o), p)
    THEN Some(Drop(Unwrap(o), Len(p))) ELSE None

\* faulty variant: only https is matched
SchemeHttpsOnly(s) == Literal(Some(s), Https)
\* ^https?://
Scheme(s) ==
  IF IsSome(Literal(Some(s), Https)) THEN Literal(Some(s), Https)
  ELSE Literal(Some(s), Http)

\* (?:u/\d+/)? : the segment is consumed when it is there
OptionalUser(o) ==
  LET d == Run(Unwrap(Literal(o, UserSegment)), Digits)
      after == Literal(Some(Drop(Unwrap(Literal(o, UserSegment)), Len(d))),
                       <<"/">>)
  IN  IF IsSome(Literal(o, UserSegment)) /\ d # <<>> /\ IsSome(after)
        THEN after ELSE o

\* ([a-zA-Z0-9_-]+) : the capture group
Capture(o) ==
  IF IsSome(o) /\ Run(Unwrap(o), IdChars) # <<>>
    THEN Some(Run(Unwrap(o), IdChars)) ELSE None

\* FOLDER_URL_REGEX.captures(..).get(1)
FOLDER_URL_REGEX(s) ==
  Capture(Literal(OptionalUser(Literal(Literal(Scheme(s), DriveHost),
                                       DrivePath)),
                  FoldersPath))
\* FILE_URL_REGEX.captures(..).get(1)
FILE_URL_REGEX(s) == Capture(Literal(Literal(Scheme(s), DriveHost), FilePath))
\* OPEN_URL_REGEX.captures(..).get(1)
OPEN_URL_REGEX(s) == Capture(Literal(Literal(Scheme(s), DriveHost), OpenPath))
\* ID_REGEX.is_match: ^[a-zA-Z0-9_-]+$
ID_REGEX(s) == s # <<>> /\ \A i \in 1..Len(s) : s[i] \in IdChars

\* extract_id
extract_id(url_or_id) ==
  LET trimmed == Trim(url_or_id)
  IN  IF IsSome(FOLDER_URL_REGEX(trimmed))
        THEN [kind |-> "Ok", value |-> Unwrap(FOLDER_URL_REGEX(trimmed))]
      ELSE IF IsSome(FILE_URL_REGEX(trimmed))
        THEN [kind |-> "Ok", value |-> Unwrap(FILE_URL_REGEX(trimmed))]
      ELSE IF IsSome(OPEN_URL_REGEX(trimmed))
        THEN [kind |-> "Ok", value |-> Unwrap(OPEN_URL_REGEX(trimmed))]
      ELSE IF ID_REGEX(trimmed) /\ trimmed # <<>>
        THEN [kind |-> "Ok", value |-> trimmed]
      ELSE [kind |-> "InvalidUrlOrId", value |-> url_or_id]

ExtractId == Apply("extract_id", extract_id(input))

\* -------------------------------------------------- main.rs: expand_braces
\* the pieces the patterns given to expand_braces are made of
PatternPieces ==
  {<<"a">>, <<"{">>, <<"}">>, <<",">>, <<" ">>,
   <<"{", "a", ",", "b", "}">>, <<"{", "1", ",", " ", "2", "}">>,
   <<"{", "}">>}
RECURSIVE Concat(_)
Concat(ss) == IF ss = <<>> THEN <<>> ELSE Head(ss) \o Concat(Tail(ss))
Patterns ==
  {Concat(ps) : ps \in UNION {[1..n -> PatternPieces] : n \in 0..MaxPieces}}

\* str::find from an offset: the first index at or after `from` holding ch,
\* 0 for None
Find(s, ch, from) ==
  LET hits == {i \in from..Len(s) : s[i] = ch}
  IN  IF hits = {} THEN 0 ELSE CHOOSE i \in hits : \A j \in hits : i <= j

RECURSIVE Split(_, _)
\* str::split(ch)
Split(s, ch) ==
  LET i == Find(s, ch, 1)
  IN  IF i = 0 THEN <<s>>
      ELSE <<SubSeq(s, 1, i - 1)>> \o Split(SubSeq(s, i + 1, Len(s)), ch)

\* faulty variant: the alternative is taken as written
ExpandedUntrimmed(prefix, alt, suffix) == prefix \o alt \o suffix
\* format!("{}{}{}", prefix, alt.trim(), suffix)
Expanded(prefix, alt, suffix) == prefix \o Trim(alt) \o suffix

\* the patterns expand_braces calls itself with: none when the pattern has
\* no '{' with a '}' after it
Children(pattern) ==
  LET start == Find(pattern, "{", 1)
      end == IF start = 0 THEN 0 ELSE Find(pattern, "}", start)
  IN  IF start # 0 /\ end # 0
        THEN LET prefix == SubSeq(pattern, 1, start - 1)
                 suffix == SubSeq(pattern, end + 1, Len(pattern))
                 alternatives == Split(SubSeq(pattern, start + 1, end - 1), ",")
             IN  [i \in 1..Len(alternatives) |->
                    Expanded(prefix, alternatives[i], suffix)]
        ELSE <<>>

RECURSIVE expand_braces(_)
RECURSIVE FlatMap(_)
\* flat_map(expand_braces).collect()
FlatMap(patterns) ==
  IF patterns = <<>> THEN <<>>
  ELSE expand_braces(Head(patterns)) \o FlatMap(Tail(patterns))
expand_braces(pattern) ==
  IF Children(pattern) # <<>> THEN FlatMap(Children(pattern))
  ELSE <<pattern>>

ExpandBraces == Apply("expand_braces", expand_braces(input))

Init ==
  /\ InitAuth
  /\ InitClient
  /\ InitDelete
  /\ InitUpload
  /\ InitDownload
  /\ InitBatch
  /\ InitFn

\* tasks sharing the authenticator
Next ==
  \/ \E c \in Callers : Enter(c) /\ UNCHANGED restVars
  \/ \E c \in Callers : ReadLock(c) /\ UNCHANGED restVars
  \/ \E c \in Callers : CheckCache(c) /\ UNCHANGED restVars
  \/ \E c \in Callers : RefreshTokenHttpError(c) /\ UNCHANGED restVars
  \/ \E c \in Callers : RefreshTokenRejected(c) /\ UNCHANGED restVars
  \/ \E c \in Callers : RefreshTokenOk(c) /\ UNCHANGED restVars
  \/ \E c \in Callers : WriteLock(c) /\ UNCHANGED restVars
  \/ \E c \in Callers : StoreToken(c) /\ UNCHANGED restVars
  \/ \E c \in Callers : Abandon(c) /\ UNCHANGED restVars
  \/ Tick /\ UNCHANGED restVars

Spec == Init /\ [][Next]_vars

\* the steps of get_access_token made by the client's task
ClientAuth ==
  \/ CheckCache(ClientTask) /\ UNCHANGED restVars
  \/ RefreshTokenHttpError(ClientTask) /\ UNCHANGED restVars
  \/ RefreshTokenRejected(ClientTask) /\ UNCHANGED restVars
  \/ RefreshTokenOk(ClientTask) /\ UNCHANGED restVars
  \/ StoreToken(ClientTask) /\ UNCHANGED restVars

\* one client running query_files and find_file calls one after the other
NextQuery ==
  \/ QueryFiles /\ UNCHANGED xferVars
  \/ FindFile /\ UNCHANGED xferVars
  \/ ClientAuth
  \/ QToken /\ UNCHANGED xferVars
  \/ QSend /\ UNCHANGED xferVars
  \/ QRecvHttpError /\ UNCHANGED xferVars
  \/ QRecvError /\ UNCHANGED xferVars
  \/ QRecvPage /\ UNCHANGED xferVars

SpecQuery == Init /\ [][NextQuery]_vars

\* the steps of a running delete_file or upload call
UploadSteps ==
  \/ ClientAuth
  \/ QToken /\ UNCHANGED xferVars
  \/ QSend /\ UNCHANGED xferVars
  \/ QRecvHttpError /\ UNCHANGED xferVars
  \/ QRecvError /\ UNCHANGED xferVars
  \/ QRecvPage /\ UNCHANGED xferVars
  \/ DeleteToken /\ UNCHANGED moreVars
  \/ DeleteRecvHttpError /\ UNCHANGED moreVars
  \/ DeleteRecv /\ UNCHANGED moreVars
  \/ AfterFindFile /\ UNCHANGED moreVars
  \/ AfterDeleteFile /\ UNCHANGED moreVars
  \/ MeasureError /\ UNCHANGED moreVars
  \/ Measure /\ UNCHANGED moreVars
  \/ MultipartToken /\ UNCHANGED moreVars
  \/ MultipartRecvHttpError /\ UNCHANGED moreVars
  \/ MultipartRecvError /\ UNCHANGED moreVars
  \/ MultipartRecvOk /\ UNCHANGED moreVars
  \/ ResumableToken /\ UNCHANGED moreVars
  \/ InitRecvHttpError /\ UNCHANGED moreVars
  \/ InitRecvError /\ UNCHANGED moreVars
  \/ InitRecvOk /\ UNCHANGED moreVars
  \/ ReadError /\ UNCHANGED moreVars
  \/ ReadEnd /\ UNCHANGED moreVars
  \/ ReadChunk /\ UNCHANGED moreVars
  \/ PutRecvHttpError /\ UNCHANGED moreVars
  \/ PutRecv308 /\ UNCHANGED moreVars
  \/ PutRecvOk /\ UNCHANGED moreVars
  \/ PutRecvError /\ UNCHANGED moreVars

\* one client running delete_file and upload calls one after the other
NextUpload ==
  \/ DeleteFile /\ UNCHANGED otherVars
  \/ UploadFile /\ UNCHANGED otherVars
  \/ UploadSteps

SpecUpload == Init /\ [][NextUpload]_vars

\* one delete_file or upload call in which every step that can be taken is
\* taken in the end: every request is answered and every await completes
FirstCall == upc = "idle" /\ dpc = "idle" /\ qpc = "idle" /\ gpc = "idle"
NextUploadLive ==
  \/ FirstCall /\ DeleteFile /\ UNCHANGED otherVars
  \/ FirstCall /\ UploadFile /\ UNCHANGED otherVars
  \/ UploadSteps

SpecUploadLive == Init /\ [][NextUploadLive]_vars /\ WF_vars(UploadSteps)

\* the steps of a download call
DownloadSteps ==
  \/ DownloadFile
  \/ DownloadToken
  \/ GetFileToken
  \/ GetFileRecvHttpError
  \/ GetFileRecvError
  \/ GetFileRecvOk
  \/ MediaRecvHttpError
  \/ MediaRecvError
  \/ MediaRecvOk
  \/ StreamChunk
  \/ StreamError
  \/ StreamEnd

\* one client running delete_file, upload and download calls one after the
\* other
NextTransfer ==
  \/ NextUpload
  \/ DownloadSteps

SpecTransfer == Init /\ [][NextTransfer]_vars

\* the upload command of main, run on what its patterns matched
InitCommand ==
  /\ InitAuth
  /\ InitClient
  /\ InitDelete
  /\ InitUpload
  /\ InitDownload
  /\ InitFn
  /\ cpc = "start"
  /\ matches \in MatchLists
  /\ files_to_upload = <<>>
  /\ idx = 0
  /\ attempts = <<>>
  /\ cresult = "none"

NextCommand ==
  \/ Collect
  \/ UploadOne
  \/ Finish

SpecCommand == InitCommand /\ [][NextCommand]_vars

\* a pure function applied to one of the given inputs
InitApply(inputs) ==
  /\ InitAuth
  /\ InitClient
  /\ InitDelete
  /\ InitUpload
  /\ InitDownload
  /\ InitBatch
  /\ fn = "none"
  /\ input \in inputs
  /\ output = <<>>

NextProgress ==
  \/ EtaSeconds
  \/ Percent

SpecProgress == InitApply(Progresses) /\ [][NextProgress]_vars

SpecFromFile == InitApply(CredFiles) /\ [][FromFile]_vars

SpecExtractId == InitApply(Inputs) /\ [][ExtractId]_vars
SpecExpandBraces == InitApply(Patterns) /\ [][ExpandBraces]_vars

\* ------------------------------------------------------------------ claims

\* the task is the only one that has called get_access_token so far
Alone(c) == \A d \in Callers \ {c} : calls[d] = 0

Failed(c) ==
  /\ pc[c] = "done"
  /\ result[c].kind \in {"JwtError", "HttpError", "TokenRefreshError"}

\* C1: when a task calls get_access_token a second time and the token its
\* first call cached is still in the cache with expires_at more than 60 s
\* after the second call's check, the second call returns at once with the
\* same access_token, the two calls made exactly one POST between them, and
\* the second call did not write the cache.
C1_TokenReuse ==
  \A c \in Callers :
    (prev[c].wrote /\ seen[c].set /\ seen[c].some
       /\ seen[c].token = prev[c].token /\ seen[c].valid)
    => /\ pc[c] = "done"
       /\ result[c] = Ok(prev[c].token)
       /\ prev[c].posts + callPosts[c] = 1
       /\ ~wrote[c]

C1_Witness ==
  \E c \in Callers :
    /\ prev[c].wrote /\ seen[c].set /\ seen[c].some
    /\ seen[c].token = prev[c].token /\ seen[c].valid
    /\ pc[c] = "done" /\ calls[c] = 2

\* C2 as stated: for a single caller, a call that finds the cache empty or
\* its expires_at at most now + 60 s makes exactly one exchange, replaces
\* the cache entry with the new token and returns the new token.
C2_Original ==
  \A c \in Callers :
    (Alone(c) /\ pc[c] = "done" /\ seen[c].set /\ ~seen[c].valid)
    => /\ callPosts[c] = 1
       /\ wrote[c]
       /\ result[c].kind = "Ok"
       /\ cached_token = new_token[c]

\* C2 as amended: for a single caller, a call that finds the cache empty or
\* its expires_at at most now + 60 s (exactly now + 60 s and past expiries
\* included) makes exactly one exchange when the key signs and none when it
\* does not; when the exchange succeeds the call replaces the cache entry
\* with the newly issued token and returns it; when it fails the call
\* returns the error and the cache keeps the entry it had.
C2_RefreshOnExpiry ==
  \A c \in Callers :
    (Alone(c) /\ seen[c].set /\ ~seen[c].valid)
    => /\ callPosts[c] = IF keyValid THEN 1 ELSE 0
       /\ pc[c] \in {"exchange", "write_wait", "write_locked", "done"}
       /\ (pc[c] = "done" /\ result[c].kind = "Ok")
            => /\ wrote[c]
               /\ cached_token = new_token[c]
               /\ IsSome(cached_token)
               /\ result[c].token = Unwrap(cached_token).access_token
               /\ result[c].token = serial
               /\ result[c].token # seen[c].token
               /\ [access_token |-> result[c].token,
                   expires_at |-> Unwrap(cached_token).expires_at,
                   caller |-> c] \in issued
       /\ (pc[c] = "done" /\ result[c].kind # "Ok")
            => /\ Failed(c)
               /\ ~wrote[c]
               /\ IsSome(cached_token) = seen[c].some
               /\ seen[c].some
                    => Unwrap(cached_token).access_token = seen[c].token

\* a second call of a single caller refreshed a token found exactly at
\* now + 60 s or already past
C2_Witness ==
  \E c \in Callers :
    /\ Alone(c) /\ calls[c] = 2 /\ pc[c] = "done"
    /\ seen[c].set /\ seen[c].some /\ ~seen[c].valid
    /\ result[c].kind = "Ok" /\ wrote[c]
    /\ now > 0

\* C3: under every interleaving the cache is empty until a first write and
\* afterwards holds exactly the (access_token, expires_at) pair the token
\* endpoint issued in the exchange of the task that wrote last, never a mix
\* of two exchanges.
C3_LastWriterWins ==
  IF lastWrite.caller = 0
    THEN cached_token = None
    ELSE /\ IsSome(cached_token)
         /\ Unwrap(cached_token).access_token = lastWrite.exch
         /\ [access_token |-> Unwrap(cached_token).access_token,
             expires_at |-> Unwrap(cached_token).expires_at,
             caller |-> lastWrite.caller] \in issued

\* two tasks both saw the cache without a usable token, both exchanged and
\* both wrote
C3_Witness ==
  \E c, d \in Callers :
    /\ c # d
    /\ pc[c] = "done" /\ pc[d] = "done"
    /\ seen[c].set /\ ~seen[c].some /\ seen[d].set /\ ~seen[d].valid
    /\ callPosts[c] = 1 /\ callPosts[d] = 1
    /\ wrote[c] /\ wrote[d]
    /\ callExch[c] # callExch[d]
    /\ lastWrite.caller = d
    /\ Unwrap(cached_token).access_token = callExch[d]

\* C4: a task whose exchange is in flight holds neither guard, the write
\* guard is held only by a task whose exchange has returned a token, and a
\* call that found a valid cached token never writes the cache.
C4_NoLockDuringExchange ==
  \A c \in Callers :
    /\ pc[c] = "exchange" => (c \notin readers /\ writer # c)
    /\ c \in readers => pc[c] = "read_locked"
    /\ writer = c => (pc[c] = "write_locked" /\ IsSome(new_token[c]))
    /\ (seen[c].set /\ seen[c].valid) => (~wrote[c] /\ callPosts[c] = 0)

\* a task returned the cached token while the exchange of a task that had
\* started on an empty cache was still in flight
C4_Witness ==
  \E c, d \in Callers :
    /\ c # d
    /\ pc[c] = "exchange" /\ seen[c].set /\ ~seen[c].some
    /\ pc[d] = "done" /\ seen[d].set /\ seen[d].valid
    /\ result[d].kind = "Ok"

\* C5: a call whose refresh failed (signing, transport, or a non-2xx answer)
\* returns an error, the error of a non-2xx answer carrying the answer's
\* status and body; the call has written nothing, holds no guard, and, for
\* a single caller, the cache is what the call found.
C5_FailedRefresh ==
  \A c \in Callers :
    Failed(c)
    => /\ ~wrote[c]
       /\ c \notin readers /\ writer # c
       /\ new_token[c] = None /\ callExch[c] = 0
       /\ result[c].kind = "TokenRefreshError"
            => /\ result[c].msg = <<resp[c].status, resp[c].body>>
               /\ resp[c].status \in ErrStatus
       /\ result[c].kind = "JwtError" => callPosts[c] = 0
       /\ Alone(c)
            => /\ IsSome(cached_token) = seen[c].some
               /\ seen[c].some
                    => Unwrap(cached_token).access_token = seen[c].token

\* a second call failed on a non-2xx answer with a token in the cache
C5_Witness ==
  \E c \in Callers :
    /\ Failed(c) /\ result[c].kind = "TokenRefreshError"
    /\ Alone(c) /\ seen[c].some /\ IsSome(cached_token)

\* C6: whatever .await point a call is abandoned at, the abandoned task
\* holds no guard, and the cache is absent or a complete token of one
\* successful exchange.
C6_CancelSafe ==
  /\ \A c \in Callers :
       pc[c] = "cancelled" => (c \notin readers /\ writer # c)
  /\ \/ cached_token = None
     \/ \E r \in issued :
          cached_token = Some(CachedToken(r.access_token, r.expires_at))

\* a task was abandoned and another holds the write guard over a cache that
\* already holds a token
C6_Witness ==
  \E c, d \in Callers :
    /\ pc[c] = "cancelled"
    /\ writer = d /\ d # c
    /\ IsSome(cached_token)

\* the files arrays of the answers, one after the other
RECURSIVE ConcatFiles(_)
ConcatFiles(rs) ==
  IF rs = <<>> THEN <<>> ELSE Head(rs).files \o ConcatFiles(Tail(rs))

\* C7: when the provider has answered a query_files call with N >= 1
\* successful pages, each with a next-page cursor except the last, the call
\* has returned Ok with the files arrays of the N pages concatenated in page
\* order.
C7_PaginationComplete ==
  (/\ op.kind = "query"
   /\ responses # <<>>
   /\ \A i \in 1..Len(responses) : responses[i].status \in 200..299
   /\ \A i \in 1..(Len(responses) - 1) : IsSome(responses[i].next)
   /\ responses[Len(responses)].next = None)
  => /\ qpc = "done"
     /\ qresult = QOk(ConcatFiles(responses), None)

\* three pages with files in each were returned as one list of five
C7_Witness ==
  /\ op.kind = "query" /\ qpc = "done" /\ qresult.kind = "Ok"
  /\ Len(responses) = 3
  /\ responses[1].files = <<"f2", "f1">>
  /\ responses[2].files = <<"f1">>
  /\ responses[3].files = <<"f2", "f1">>
  /\ Len(qresult.files) = 5

\* C8: the first list request carries no pageToken, every later request
\* carries the cursor of the response just before it, and no request
\* follows a response without a cursor.
C8_CursorFollowing ==
  /\ Len(requests) - Len(responses) \in {0, 1}
  /\ requests # <<>> => requests[1].pageToken = None
  /\ \A i \in 2..Len(requests) :
       /\ IsSome(responses[i - 1].next)
       /\ requests[i].pageToken = responses[i - 1].next
  /\ \A i \in 1..Len(responses) :
       responses[i].next = None => (Len(requests) = i /\ qpc = "done")

\* a third request followed the cursor of the second response, which
\* differs from the cursor of the first, and the third response ended it
C8_Witness ==
  /\ Len(requests) = 3 /\ Len(responses) = 3
  /\ requests[2].pageToken = Some("t1")
  /\ requests[3].pageToken = Some("t2")
  /\ responses[3].next = None /\ responses[3].status = 200

\* C9: a non-2xx response to any page request ends query_files at once with
\* an ApiError: it is the last response, no request follows it, and the
\* result carries none of the files of the earlier pages.
C9_PaginationAbort ==
  \A i \in 1..Len(responses) :
    responses[i].status \notin 200..299
    => /\ i = Len(responses)
       /\ Len(requests) = i
       /\ qpc = "done"
       /\ qresult.kind = "ApiError"
       /\ qresult.files = <<>> /\ qresult.found = None

\* the second page was refused after the first had brought files
C9_Witness ==
  /\ Len(responses) = 2
  /\ responses[1].files # <<>>
  /\ responses[2].status = 500
  /\ all_files # <<>>
  /\ qpc = "done"

\* C10: a find_file call that returns Ok returns the last element of the
\* files its query_files call gathered over all pages for the name-and-parent
\* predicate, and returns None exactly when there are none.
C10_FindLast ==
  (op.kind = "find" /\ qpc = "done" /\ qresult.kind = "Ok")
  => /\ \A i \in 1..Len(requests) : requests[i].q = op.q
     /\ \E name \in Names, parent_id \in Parents :
          op.q = FindQuery(name, parent_id)
     /\ (qresult.found = None) <=> (ConcatFiles(responses) = <<>>)
     /\ ConcatFiles(responses) # <<>>
          => qresult.found =
               Some(ConcatFiles(responses)[Len(ConcatFiles(responses))])

\* the matches came on two pages, and the one returned is the last of the
\* second page, not the first match
C10_Witness ==
  /\ op.kind = "find" /\ qpc = "done" /\ qresult.kind = "Ok"
  /\ Len(responses) = 2
  /\ responses[1].files = <<"f2", "f1">>
  /\ responses[2].files = <<"f2", "f1">>
  /\ ConcatFiles(responses)[1] = "f2"
  /\ qresult.found = Some("f1")

\* C11: delete_file returns success when the provider answers 2xx or 404, and
\* an ApiError carrying the HTTP status for every other response status.
C11_DeleteTolerates404 ==
  (dpc = "done" /\ dstatus # 0) =>
    IF dstatus \in 200..299 \/ dstatus = 404
      THEN dresult.kind = "Ok"
      ELSE dresult.kind = "ApiError" /\ dresult.status = dstatus

\* a DELETE answered 404 has returned success
C11_Witness ==
  /\ dpc = "done"
  /\ dsent = 1
  /\ dstatus = 404
  /\ dresult.kind = "Ok"

\* upload requests the provider has received from the upload call
UploadRequests == nMultipart + nInit

\* C12: every upload takes exactly one of the two paths: a file of at most
\* 50 MiB (the threshold itself and an empty file included) is sent by one
\* multipart POST with no resumable-init POST and no chunk PUT; a larger file
\* by one resumable-init POST followed by chunk PUTs, with no multipart POST.
C12_StrategySelection ==
  /\ UploadRequests <= 1
  /\ nMultipart = 1 => (file_size <= 50 * 1024 * 1024 /\ nPut = 0)
  /\ nInit = 1 => file_size > 50 * 1024 * 1024
  /\ nPut > 0 => nInit = 1
  /\ upc = "multipart_await" => nMultipart = 1
  /\ upc \in {"init_await", "read", "put_await"} => nInit = 1
  /\ (upc = "done" /\ uresult.kind = "Ok") =>
       IF file_size <= 50 * 1024 * 1024
         THEN nMultipart = 1
         ELSE nInit = 1 /\ nPut >= 1

\* a file of exactly the threshold has been uploaded by one multipart POST
C12_Witness ==
  /\ upc = "done"
  /\ uresult.kind = "Ok"
  /\ file_size = 50 * 1024 * 1024
  /\ nMultipart = 1
  /\ nInit = 0

\* the provider's answer to the DELETE lets the upload go on
DeleteAccepted == dstatus \in 200..299 \/ dstatus = 404

\* C13: upload first looks up a same-named file; if one is found, its DELETE
\* is sent and answered (2xx or 404) before any upload request is sent; if
\* the lookup fails, or the delete fails with another status, upload returns
\* that error and sends no upload request.
C13_OverwriteOrdering ==
  upc # "idle" =>
    /\ lookup \in {"none", "pending"} => (dsent = 0 /\ UploadRequests = 0)
    /\ dpc # "idle" => (lookup = "found" /\ existing = Some(file_id))
    /\ lookup = "absent" => dsent = 0
    /\ (lookup = "found" /\ UploadRequests > 0) =>
         (dsent = 1 /\ DeleteAccepted)
    /\ lookup = "failed" =>
         /\ upc = "done"
         /\ uresult = qresult
         /\ uresult.kind # "Ok"
         /\ dsent = 0
         /\ UploadRequests = 0
    /\ (lookup = "found" /\ dstatus # 0 /\ ~DeleteAccepted
          /\ upc # "delete") =>
         /\ upc = "done"
         /\ uresult.kind = "ApiError"
         /\ uresult.status = dstatus
         /\ UploadRequests = 0

\* an existing file was found, its DELETE answered, and then the upload
\* request was sent
C13_Witness ==
  /\ lookup = "found"
  /\ dsent = 1
  /\ dstatus = 204
  /\ nInit = 1

\* the chunked upload has returned Ok(metadata)
ChunkedOk == upc = "done" /\ nInit = 1 /\ uresult.kind = "Ok"

\* C14 as stated: in a successful chunked upload of a file of size S the
\* Content-Range headers have total S, the first starts at 0, each next
\* starts at the previous end + 1, and the last ends at S-1.
C14_Original ==
  /\ nPut >= 1 => put.total = file_size
  /\ nPut = 1 => put.start = 0
  /\ nPut >= 2 => put.start = prevPut.end + 1
  /\ ChunkedOk => put.end = file_size - 1

\* C14 (amended): in a chunked upload of a file of size S, whatever lengths
\* the reads return, every Content-Range has total S and spans the bytes the
\* PUT carries, the first starts at 0 and each next starts at the previous
\* end + 1, so the ranges sent cover [0, bytes read) with no gap and no
\* overlap; a successful upload's last range ends at S-1 exactly when the
\* whole file had been read before the provider answered 2xx.
C14_ChunkAccounting ==
  /\ nPut >= 1 =>
       /\ put.total = file_size
       /\ put.len >= 1
       /\ put.end = put.start + put.len - 1
       /\ put.end + 1 = fileLen - avail
  /\ nPut = 1 => put.start = 0
  /\ nPut >= 2 =>
       /\ put.start = prevPut.end + 1
       /\ prevPut.total = file_size
  /\ ChunkedOk => (put.end = file_size - 1 <=> avail = 0)

\* a file was uploaded up to byte S-1 in ranges of unequal lengths, short
\* reads among them
C14_Witness ==
  /\ ChunkedOk
  /\ nPut >= 3
  /\ prevPut.len = 2 * 1024 * 1024
  /\ nFull >= 1
  /\ put.end = file_size - 1

\* the least number of chunks of `chunk` bytes that hold `size` bytes
CeilDiv(size, chunk) == (size + chunk - 1) \div chunk

\* C15: when the provider answers 308 to every chunk but the last and 2xx to
\* the last, a chunked upload of S bytes issues exactly ceil(S / 8 MiB) PUTs
\* (13 for a 100 MB file), every PUT except the last carrying 8 MiB.
C15_PutCount ==
  (ChunkedOk /\ n308 = nPut - 1 /\ avail = 0) =>
    /\ nPut = CeilDiv(file_size, 8 * 1024 * 1024)
    /\ nFull >= nPut - 1

\* progress notifications the chunk PUTs answered 308 account for
Notes308 == IF progress THEN n308 ELSE 0

\* C16: on a 308 the uploaded-byte counter grows by the length of the chunk
\* just sent, one notification carrying the new counter and the file size is
\* emitted when a callback is given, and the loop goes on with the next read;
\* the counter changes on no other event.
C16_AdvanceOn308 ==
  /\ bytes_uploaded = acked
  /\ putStatus = 308 =>
       /\ upc \in {"read", "done"}
       /\ upc = "done" => uresult.kind \in {"FileReadError", "ApiError"}
       /\ bytes_uploaded = put.start + put.len
       /\ nNotes = Notes308
       /\ progress => note = [bytes_transferred |-> acked,
                              total_bytes |-> file_size]
  /\ upc \in {"read", "put_await"} => nNotes = Notes308
  /\ ~progress => nNotes = 0

\* the second chunk, a short one, was answered 308 and reported
C16_Witness ==
  /\ upc = "read"
  /\ putStatus = 308
  /\ progress
  /\ n308 = 2
  /\ put.len = 2 * 1024 * 1024
  /\ note.bytes_transferred = prevPut.len + put.len

\* C17: on a 2xx other than 308 to any chunk PUT the upload ends as complete:
\* one final notification with bytes_transferred = total_bytes = file size is
\* emitted, the FileMetadata parsed from the response is returned (the decode
\* error when the body is no FileMetadata), and no further PUT is sent, also
\* when bytes of the file are still unsent.
C17_CompleteOn2xx ==
  putStatus \in 200..299 =>
    /\ upc = "done"
    /\ nPut = n308 + 1
    /\ nNotes = Notes308 + (IF progress THEN 1 ELSE 0)
    /\ progress => note = [bytes_transferred |-> file_size,
                           total_bytes |-> file_size]
    /\ uresult = IF IsSome(putBody.metadata)
                   THEN QOk(<<>>, putBody.metadata)
                   ELSE QErr("HttpError", 0, "")

\* a 200 arrived while bytes of the file were unsent: the upload is complete
C17_Witness ==
  /\ putStatus = 200
  /\ progress
  /\ avail > 0
  /\ n308 >= 1
  /\ uresult.kind = "Ok"
  /\ note.bytes_transferred = file_size

\* C18: on an answer that is neither 308 nor 2xx the upload returns an
\* ApiError with that status and the response body, emits no notification
\* for that chunk and sends no further request; no byte range is PUT twice
\* within one call.
C18_AbortOnChunkError ==
  /\ (putStatus # 0 /\ putStatus # 308 /\ putStatus \notin 200..299) =>
       /\ upc = "done"
       /\ uresult = QErr("ApiError", putStatus, putBody.text)
       /\ nPut = n308 + 1
       /\ nNotes = Notes308
  /\ nPut >= 2 => put.start > prevPut.end

\* the third chunk was answered 503 with a structured body, after two 308s
C18_Witness ==
  /\ upc = "done"
  /\ putStatus = 503
  /\ progress
  /\ nPut = 3
  /\ nNotes = 2
  /\ uresult.kind = "ApiError"
  /\ uresult.message # "raw text"

\* C19: when the file reaches end-of-data while every chunk PUT so far was
\* answered 308 (the chunk ending at byte S-1 included, or no chunk at all),
\* the upload returns an error and never success.
C19_NoSilentSuccess ==
  /\ eof =>
       /\ upc = "done"
       /\ n308 = nPut
       /\ uresult.kind = "ApiError"
       /\ uresult.status = 500
  /\ ChunkedOk => (~eof /\ putStatus \in 200..299)

\* the chunk ending at byte S-1 was answered 308 and the next read hit the end
C19_Witness ==
  /\ eof
  /\ nPut >= 1
  /\ putStatus = 308
  /\ put.end = file_size - 1
  /\ uresult.kind = "ApiError"

\* the init POST was answered 2xx with a Location header
InitAccepted == initResp.status \in 200..299 /\ IsSome(initResp.location)

\* C20: when the resumable-init answer is non-2xx, or 2xx without a Location
\* header, the upload returns an error, issues no chunk PUT and does not open
\* the local file; chunk PUTs go only to the URL of the Location header of a
\* successful init.
C20_SessionInitiation ==
  /\ (initResp.status # 0 /\ ~InitAccepted) =>
       /\ upc = "done"
       /\ uresult.kind = "ApiError"
       /\ uresult.status = IF initResp.status \in 200..299
                             THEN 500 ELSE initResp.status
       /\ nPut = 0
       /\ opened = 0
  /\ (nInit = 1 /\ opened > 0) => InitAccepted
  /\ nPut >= 1 => (InitAccepted /\ put.url = Unwrap(initResp.location))

\* the init POST was answered 200 without a Location header
C20_Witness ==
  /\ upc = "done"
  /\ initResp.status = 200
  /\ initResp.location = None
  /\ uresult.kind = "ApiError"
  /\ opened = 0

\* the state of the chunked upload (upload_resumable) the call is in
UploadState ==
  CASE upc \in {"resumable_token", "init_await"} -> "Initiating"
    [] upc \in {"read", "put_await"} -> "Uploading"
    [] upc = "done" /\ file_size > RESUMABLE_THRESHOLD
         /\ uresult.kind = "Ok" -> "Complete"
    [] upc = "done" /\ file_size > RESUMABLE_THRESHOLD -> "Failed"
    [] OTHER -> "None"

\* C21: within one chunked upload, Uploading is entered only from Initiating
\* on an init answered 2xx with a Location header; the loop goes round (and
\* bytes_uploaded changes) only on a 308; Complete is entered only from
\* Uploading on a 2xx that is not 308; Complete and Failed are absorbing: no
\* request is sent and no notification is emitted after either.
C21_UploadStateMachine ==
  [][ops' = ops =>
       /\ (UploadState' = "Uploading" /\ UploadState # "Uploading") =>
            /\ UploadState = "Initiating"
            /\ initResp'.status \in 200..299
            /\ IsSome(initResp'.location)
       /\ (upc = "put_await" /\ upc' = "read") => putStatus' = 308
       /\ (UploadState = "Uploading" /\ bytes_uploaded' # bytes_uploaded) =>
            (putStatus' = 308 /\ UploadState' = "Uploading")
       /\ (UploadState' = "Complete" /\ UploadState # "Complete") =>
            /\ UploadState = "Uploading"
            /\ putStatus' \in 200..299
            /\ putStatus' # 308
       /\ UploadState \in {"Complete", "Failed"} =>
            /\ UploadState' = UploadState
            /\ nInit' = nInit
            /\ nPut' = nPut
            /\ nMultipart' = nMultipart
            /\ dsent' = dsent
            /\ requests' = requests
            /\ callPosts' = callPosts
            /\ nNotes' = nNotes
            /\ note' = note]_vars

\* a chunked upload that went round the loop twice and completed
C21_Witness ==
  /\ UploadState = "Complete"
  /\ n308 >= 2
  /\ nNotes = n308 + 1

C23_FinalProgress ==
  /\ (upc = "done" /\ uresult.kind = "Ok" /\ progress) =>
       (nNotes >= 1 /\ note.bytes_transferred = note.total_bytes)
  /\ (gpc = "done" /\ dl_result.kind = "Ok" /\ dl_progress) =>
       (dl_notes >= 1 /\ dl_note.bytes_transferred = dl_note.total_bytes)

\* C24: a chunked upload made with a callback emits one notification per
\* chunk PUT answered 308 plus one for the terminal 2xx and none for a chunk
\* answered with an error; a download made with a callback emits one
\* notification per buffer received and written, carrying the bytes written
\* so far; a buffer that is not written ends the call.
C24_ProgressGranularity ==
  /\ nNotes = IF progress
                THEN n308 + (IF putStatus \in 200..299 THEN 1 ELSE 0)
                ELSE 0
  /\ dl_notes = IF dl_progress THEN nWritten ELSE 0
  /\ dl_notes >= 1 => dl_note.bytes_transferred = written
  /\ nWritten <= nBuffers
  /\ nBuffers <= nWritten + 1
  /\ nBuffers > nWritten =>
       (gpc = "done" /\ dl_result.kind = "FileWriteError")

\* a download whose second buffer could not be written
C24_Witness ==
  /\ dl_progress
  /\ nBuffers = 2
  /\ nWritten = 1
  /\ dl_notes = 1

\* the texts of the bodies that have the provider's structured error shape
StructuredTexts == {RawText(b) : b \in {x \in ErrBodies : x.structured}}

\* C28: an API error returned for a non-2xx answer to a data call never
\* carries the raw text of a body that has the structured error shape: it
\* carries the code and the message found in that body.
C28_StructuredPreferred ==
  /\ \A r \in {qresult, dresult, uresult, dl_result} :
       r.kind = "ApiError" => r.message \notin StructuredTexts
  /\ (mediaResp.status \in ApiErrStatus /\ mediaResp.body.structured) =>
       /\ dl_result.status = mediaResp.body.code
       /\ dl_result.message = mediaResp.body.message

\* C29: the media GET is sent only after get_file returned the metadata; when
\* the metadata is not obtained no media GET is sent and no file is created;
\* a successful download returns that metadata; the file is created at the
\* destination joined with the remote name when the destination is a
\* directory, else at the destination as given.
C29_DownloadOrdering ==
  /\ nMedia >= 1 => (nMeta = 1 /\ IsSome(metadata))
  /\ (gpc = "done" /\ ~IsSome(metadata)) =>
       /\ nMedia = 0
       /\ created = {}
       /\ dl_result.kind # "Ok"
  /\ dl_result.kind = "Ok" => (IsSome(metadata) /\ dl_result.found = metadata)
  /\ IsSome(final_path) =>
       Unwrap(final_path) = IF is_dir
                              THEN destination \o <<Unwrap(metadata).name>>
                              ELSE destination
  /\ created \subseteq {Unwrap(p) : p \in {final_path} \ {None}}

\* a download into a directory that succeeded
C29_Witness ==
  /\ gpc = "done"
  /\ dl_result.kind = "Ok"
  /\ is_dir
  /\ created = {<<"d", "r">>}

\* two f64 values are equal numbers
FEq(x, y) ==
  /\ ~IsNaN(x)
  /\ ~IsNaN(y)
  /\ IF x.den = 0 \/ y.den = 0 THEN x = y
     ELSE x.num * y.den = y.num * x.den

\* C25: percent() is 100 whenever total_bytes is 0; eta_seconds() is absent
\* whenever bytes_per_second is 0 or negative; when bytes_per_second is
\* positive it is the remaining bytes, clamped at 0, divided by
\* bytes_per_second, and so never negative.
C25_ProgressEdges ==
  /\ (fn = "percent" /\ input.total_bytes = 0) => FEq(output, F64(100))
  /\ fn = "eta_seconds" =>
       LET speed == input.bytes_per_second
           remaining == IF input.total_bytes > input.bytes_transferred
                          THEN input.total_bytes - input.bytes_transferred
                          ELSE 0
       IN  /\ (speed.den > 0 /\ speed.num <= 0) => output = None
           /\ (speed.den > 0 /\ speed.num > 0) =>
                /\ IsSome(output)
                /\ FEq(Unwrap(output),
                       [num |-> remaining * speed.den, den |-> speed.num])
                /\ Unwrap(output).num >= 0

\* eta_seconds of a transfer that moved more bytes than the total, at a
\* positive speed
C25_Witness ==
  /\ fn = "eta_seconds"
  /\ input.bytes_transferred > input.total_bytes
  /\ input.bytes_per_second = F64(2)
  /\ output = Some(FDiv(F64(0), F64(2)))

\* the files of the upload_file calls made, in the order made
Attempted == [i \in 1..Len(attempts) |-> attempts[i].file]

C27_FromFile ==
  fn = "from_file" =>
    /\ ~input.exists => output.kind = "CredentialsFileError"
    /\ (input.exists /\ ~input.json) => output.kind = "CredentialsParseError"
    /\ (input.exists /\ input.json) =>
         IF {"client_email", "private_key"} \subseteq input.fields
           THEN /\ output.kind = "Ok"
                /\ output.value.cached_token = None
           ELSE output.kind = "CredentialsParseError"
    /\ serial = 0
    /\ \A c \in Callers : callPosts[c] = 0

\* an authenticator built from credentials whose private_key is no PEM key
C27_Witness ==
  /\ fn = "from_file"
  /\ output.kind = "Ok"
  /\ ~input.pem

\* the input without the whitespace around it
Stripped(s) ==
  LET keep == {i \in 1..Len(s) : s[i] \notin WhiteSpace}
  IN  IF keep = {} THEN <<>>
      ELSE SubSeq(s, CHOOSE i \in keep : \A j \in keep : i <= j,
                     CHOOSE i \in keep : \A j \in keep : i >= j)

\* the URL prefixes extract_id accepts
AcceptedPrefixes ==
  {s \o DriveHost \o p :
     s \in {Https, Http},
     p \in {DrivePath \o FoldersPath,
            DrivePath \o UserSegment \o <<"0", "/">> \o FoldersPath,
            DrivePath \o UserSegment \o <<"1", "2", "/">> \o FoldersPath,
            FilePath, OpenPath}}

\* the non-empty leading runs of id characters that follow an accepted prefix
UrlIds(t) ==
  UNION {{SubSeq(t, Len(p) + 1, k) :
            k \in {n \in (Len(p) + 1)..Len(t) :
                     /\ \A i \in (Len(p) + 1)..n : t[i] \in IdChars
                     /\ (n = Len(t) \/ t[n + 1] \notin IdChars)}} :
         p \in {q \in AcceptedPrefixes : StartsWith(t, q)}}

\* C30: after trimming, a folder, file or open URL (http or https) gives the
\* leading run of id characters after its prefix, a non-empty string of id
\* characters gives itself, and every other input gives InvalidUrlOrId.
C30_ExtractId ==
  fn = "extract_id" =>
    LET t == Stripped(input)
    IN  IF UrlIds(t) # {}
          THEN output.kind = "Ok" /\ UrlIds(t) = {output.value}
        ELSE IF t # <<>> /\ \A i \in 1..Len(t) : t[i] \in IdChars
          THEN output = [kind |-> "Ok", value |-> t]
        ELSE output = [kind |-> "InvalidUrlOrId", value |-> input]

\* an http URL with whitespace around it and text after the id
C30_Witness ==
  /\ fn = "extract_id"
  /\ output = [kind |-> "Ok", value |-> <<"a">>]
  /\ input = <<"\t", " ", "\n">> \o Http \o DriveHost \o FilePath
               \o <<"a", "/">>

\* the indices of s, from `from` on, that hold a character of the set
RECURSIVE Positions(_, _, _)
Positions(s, chars, from) ==
  IF from > Len(s) THEN <<>>
  ELSE (IF s[from] \in chars THEN <<from>> ELSE <<>>)
       \o Positions(s, chars, from + 1)

\* the pattern has a '{' with a '}' somewhere after it
HasPair(p) == \E i, j \in 1..Len(p) : i < j /\ p[i] = "{" /\ p[j] = "}"

BracePositions(p) == Positions(p, {"{", "}"}, 1)
\* the braces of the pattern open and close in turn: groups are not nested
\* and no brace stands alone
Paired(p) ==
  LET b == BracePositions(p)
  IN  /\ Len(b) % 2 = 0
      /\ \A k \in 1..Len(b) : p[b[k]] = IF k % 2 = 1 THEN "{" ELSE "}"
NumGroups(p) == Len(BracePositions(p)) \div 2

\* the text after group k (after the start of the pattern for k = 0) up to
\* the next group or the end
Between(p, k) ==
  LET b == BracePositions(p)
  IN  SubSeq(p, IF k = 0 THEN 1 ELSE b[2 * k] + 1,
                IF k = NumGroups(p) THEN Len(p) ELSE b[2 * k + 1] - 1)

\* the comma-separated alternatives of group k, as written
Alternatives(p, k) ==
  LET b == BracePositions(p)
      body == SubSeq(p, b[2 * k - 1] + 1, b[2 * k] - 1)
      commas == Positions(body, {","}, 1)
      n == Len(commas) + 1
  IN  [j \in 1..n |->
         SubSeq(body, IF j = 1 THEN 1 ELSE commas[j - 1] + 1,
                      IF j = n THEN Len(body) ELSE commas[j] - 1)]

\* the number of combinations of the groups from `from` on
RECURSIVE Product(_, _)
Product(p, from) ==
  IF from > NumGroups(p) THEN 1
  ELSE Len(Alternatives(p, from)) * Product(p, from + 1)

\* combination m (from 0), from group k on: the leftmost group varies slowest
RECURSIVE Build(_, _, _, _)
Build(p, m, k, trimmed) ==
  IF k > NumGroups(p) THEN <<>>
  ELSE LET alts == Alternatives(p, k)
           alt == alts[((m \div Product(p, k + 1)) % Len(alts)) + 1]
       IN  (IF trimmed THEN Stripped(alt) ELSE alt)
           \o Between(p, k) \o Build(p, m, k + 1, trimmed)
Combinations(p, trimmed) ==
  [m \in 1..Product(p, 1) |-> Between(p, 0) \o Build(p, m - 1, 1, trimmed)]

\* every pattern expand_braces is called with while it expands p
RECURSIVE Calls(_)
Calls(p) ==
  {p} \cup UNION {Calls(Children(p)[i]) : i \in 1..Len(Children(p))}

\* C31 as stated: a pattern without a '{...}' pair is returned alone, and a
\* pattern with brace groups gives every combination of the alternatives as
\* written between the commas, the leftmost group varying slowest.
C31_AsWritten ==
  fn = "expand_braces" =>
    /\ ~HasPair(input) => output = <<input>>
    /\ (HasPair(input) /\ Paired(input)) =>
         output = Combinations(input, FALSE)

\* C31 (amended): a pattern without a '{...}' pair is returned alone; a
\* pattern whose braces are paired and not nested gives every combination of
\* the alternatives, each trimmed of the whitespace around it, the leftmost
\* group varying slowest; every recursive call is on a pattern at least two
\* characters shorter, so the expansion terminates.
C31_ExpandBraces ==
  fn = "expand_braces" =>
    /\ ~HasPair(input) => output = <<input>>
    /\ (HasPair(input) /\ Paired(input)) =>
         output = Combinations(input, TRUE)
    /\ \A q \in Calls(input) : \A i \in 1..Len(Children(q)) :
         Len(Children(q)[i]) <= Len(q) - 2

\* two groups, one with a space after its comma
C31_Witness ==
  /\ fn = "expand_braces"
  /\ input = <<"{", "a", ",", "b", "}", "{", "1", ",", " ", "2", "}">>
  /\ output = <<<<"a", "1">>, <<"a", "2">>, <<"b", "1">>, <<"b", "2">>>>

\* C32: under every interleaving, a call that returned a token without an
\* exchange returned the cached token it saw under its read guard, whose
\* expires_at was more than 60 s after that check; a call that exchanged
\* returned the token of its own exchange, whatever other tasks stored in
\* the cache meanwhile.
C32_ReturnedTokenValid ==
  \A c \in Callers :
    (pc[c] = "done" /\ result[c].kind = "Ok") =>
      IF callExch[c] = 0
        THEN /\ seen[c].set /\ seen[c].some /\ seen[c].valid
             /\ result[c].token = seen[c].token
             /\ callPosts[c] = 0
        ELSE /\ result[c].token = callExch[c]
             /\ seen[c].set /\ ~seen[c].valid

\* a task saw an empty cache, another task stored its token while the first
\* was refreshing, and the first returned the later token of its own exchange
C32_Witness ==
  \E c, d \in Callers :
    /\ c # d
    /\ pc[c] = "done" /\ pc[d] = "done"
    /\ ~seen[c].some /\ wrote[c] /\ wrote[d]
    /\ lastWrite.caller = c
    /\ callExch[d] # 0 /\ callExch[d] < callExch[c]
    /\ result[c] = Ok(callExch[c])

\* the positions of query_files after its get_access_token call was made,
\* and those of upload_resumable
InQuery == {"token", "request", "await"}
InResumable == {"resumable_token", "init_await", "read", "put_await"}

\* C33: query_files calls get_access_token once, on entry, and every page
\* request carries the token that call returned; upload_resumable calls it
\* once, on entry, sends the init request with its token, and neither calls
\* it again nor changes its token during the chunk loop.
C33_OneTokenPerOperation ==
  [][/\ (qpc \notin InQuery /\ qpc' = "token") => started' = started + 1
     /\ qpc \in InQuery => started' = started
     /\ qpc \in {"request", "await"} => token' = token
     /\ Len(requests') > Len(requests) =>
          /\ requests'[Len(requests')].bearer = token
          /\ requests'[Len(requests')].bearer = requests'[1].bearer
          /\ token = result[ClientTask].token
          /\ callPosts[ClientTask] <= 1
     /\ (upc = "stat" /\ upc' = "resumable_token") => started' = started + 1
     /\ upc \in InResumable => started' = started
     /\ upc \in {"init_await", "read", "put_await"} =>
          /\ token' = token
          /\ pc'[ClientTask] = pc[ClientTask]
          /\ callPosts' = callPosts
     /\ nInit' > nInit => token' = result[ClientTask].token
    ]_vars

\* an upload whose name lookup and delete each took a token of their own,
\* and whose chunk loop is at its second PUT under the third token
C33_Witness ==
  /\ upc = "put_await" /\ nPut = 2
  /\ lookup = "found" /\ dsent = 1
  /\ started = 3 /\ serial = 3
  /\ token = 3
  /\ token = callExch[ClientTask]

\* the upload call has measured or opened the local file, or is about to
PastDelete ==
  \/ upc \in {"stat", "multipart_token", "multipart_await", "resumable_token",
              "init_await", "read", "put_await"}
  \/ opened >= 1
  \/ file_size # 0

\* C34: when a same-named remote file was found, the local file is measured
\* and opened only after the DELETE was sent and accepted; an upload that
\* then returns a file-read error has deleted the remote file, has created
\* no file in its place and sends nothing more.
C34_DeleteBeforeRead ==
  /\ (lookup = "found" /\ PastDelete) =>
       /\ dsent = 1 /\ DeleteAccepted
       /\ dpc = "done" /\ dresult.kind = "Ok"
  /\ (lookup \in {"pending", "failed"} \/ upc = "delete") =>
       (opened = 0 /\ file_size = 0)
  /\ (upc = "done" /\ uresult.kind = "FileReadError") =>
       /\ lookup \in {"found", "absent"}
       /\ lookup = "found" => (dsent = 1 /\ DeleteAccepted)
       /\ nMultipart = 0
       /\ putStatus \notin 200..299 \ {308}

\* the remote file was deleted and then the local file could not be measured
C34_Witness ==
  /\ upc = "done"
  /\ uresult.kind = "FileReadError"
  /\ lookup = "found"
  /\ dsent = 1 /\ dstatus = 204
  /\ opened = 0 /\ file_size = 0
  /\ UploadRequests = 0

\* C35: one upload call sends at most one DELETE, for the last element of
\* what its name lookup listed, and none after the delete_file call has
\* returned: when the lookup listed k >= 2 files, the DELETE is for one of
\* them and the other k-1 get none.
C35_SingleDelete ==
  /\ [](/\ dsent <= 1
        /\ (upc # "idle" /\ dpc # "idle") =>
             /\ lookup = "found"
             /\ existing = Some(file_id)
        /\ (upc # "idle" /\ dpc = "idle") => dsent = 0
        /\ upc = "delete" =>
             /\ file_id \in matched
             /\ Cardinality(matched \ {file_id}) = Cardinality(matched) - 1
        /\ (upc = "done" /\ uresult.kind = "Ok" /\ lookup = "found") =>
             dsent = 1)
  /\ [][/\ (upc = "find" /\ upc' = "delete") =>
            /\ ConcatFiles(responses) # <<>>
            /\ file_id' = ConcatFiles(responses)[Len(ConcatFiles(responses))]
            /\ matched' = {ConcatFiles(responses)[i] :
                             i \in 1..Len(ConcatFiles(responses))}
        /\ (upc \notin {"idle", "find", "delete", "done"}
              \/ (upc = "delete" /\ dpc = "done")) =>
            (dsent' = dsent /\ file_id' = file_id /\ dstatus' = dstatus)
       ]_vars

\* two remote files had the name; the one DELETE, for the last listed, was
\* accepted
C35_Witness ==
  /\ upc = "delete" /\ dpc = "done"
  /\ matched = {"f1", "f2"}
  /\ dsent = 1 /\ dstatus = 204
  /\ file_id = "f1"
  /\ dresult.kind = "Ok"

\* C36: the destination is created or truncated only after the media GET was
\* answered 2xx: a download that failed on a token, on the metadata or on the
\* media GET has touched no local file; bytes are written only to the created
\* file, and a download whose body stream failed leaves that file in place
\* with the bytes written before the failure.
C36_DestinationUntouched ==
  /\ created # {} =>
       /\ nMeta = 1 /\ IsSome(metadata)
       /\ nMedia = 1 /\ mediaResp.status \in 200..299
       /\ created = {Unwrap(final_path)}
  /\ (gpc = "done" /\ (nMedia = 0 \/ mediaResp.status \notin 200..299)) =>
       /\ dl_result.kind # "Ok"
       /\ created = {}
       /\ written = 0 /\ nBuffers = 0
  /\ gpc \in {"idle", "token", "meta_token", "meta_await", "media_await"} =>
       (created = {} /\ written = 0)
  /\ (written > 0 \/ gpc = "stream") => created = {Unwrap(final_path)}
  /\ (gpc = "done" /\ dl_result.kind = "HttpError"
        /\ mediaResp.status \in 200..299) =>
       /\ created = {Unwrap(final_path)}
       /\ written = bytes_downloaded

\* the body stream failed after one buffer of two bytes had been written
C36_Witness ==
  /\ gpc = "done"
  /\ dl_result.kind = "HttpError"
  /\ mediaResp.status = 200
  /\ nWritten = 1 /\ written = 2
  /\ created = {<<"d">>}

\* the answers the running query_files call has received all carried a cursor
AllCursors ==
  \A i \in 1..Len(responses) :
    responses[i].status \in 200..299 /\ IsSome(responses[i].next)

\* C37: when every request is answered, a chunked upload ends, in Complete or
\* Failed: each PUT follows a read that took at least one byte of the finite
\* file, so there is at most one PUT per byte left. query_files ends on the
\* first answer that is an error or carries no cursor, and only then: after
\* an answer with a cursor it sends the next request with that cursor,
\* whatever the cursor and however many pages came before.
C37_Termination ==
  /\ (upc \in InResumable) ~> (upc = "done")
  /\ [](/\ nPut <= fileLen - avail
        /\ (upc = "done" /\ file_size > RESUMABLE_THRESHOLD) =>
             UploadState \in {"Complete", "Failed"}
        /\ qpc \in {"request", "await"} => AllCursors
        /\ (qpc = "done" /\ Len(responses) >= 1
              /\ Len(responses) = Len(requests)) => ~AllCursors
        /\ \A i \in 1..(Len(responses) - 1) :
             responses[i].status \in 200..299 /\ IsSome(responses[i].next))
  /\ [][/\ nPut' > nPut => (nPut' = nPut + 1 /\ avail' < avail)
        /\ (upc = "put_await" /\ upc' = "read") => avail' = avail
        /\ (qpc = "await" /\ Len(responses') > Len(responses)) =>
             IF AllCursors'
               THEN /\ qpc' = "request"
                    /\ page_token' = responses'[Len(responses')].next
               ELSE qpc' = "done"
       ]_vars

\* every PUT was answered 308 and the upload ended when the file was read up
C37_Witness ==
  /\ upc = "done"
  /\ uresult = LoopExhausted
  /\ nPut >= 3 /\ n308 = nPut
  /\ avail = 0 /\ eof

====
